---- MODULE Spec2Model ----
(***************************************************************************)
(* A model of the icebox wallet (src/lib/wallet/mod.rs): the descriptor    *)
(* list, the labelled addresses, the tracked txos, the key cache shared    *)
(* with the hardware authority (the dongle), and the operations            *)
(* add_descriptor, add_address, txo, script_pubkey_cache and scan_block.   *)
(***************************************************************************)
EXTENDS Integers, Sequences, FiniteSets, TLC

\* ------------------------------------------------------------------ bounds
\* The number of wallet calls in a behaviour of Spec (the whole wallet).
MaxCalls == 5
\* The number of calls in a behaviour of SpecRegister (registration).
MaxRegisterCalls == 3
\* The number of calls in a behaviour of SpecLabel (labelling).
MaxLabelCalls == 4
\* The number of calls in a behaviour of SpecScan (scanning and lookup).
MaxScanCalls == 5
\* At most MaxFail requests are refused by the hardware authority.
MaxFail == 1
\* The longest sequence of outpoints among the enumerated codec inputs.
MaxSeqLen == 2
\* A decoded stream is cut after 0 .. MaxCut bytes, before its last byte, or
\* not at all.
MaxCut == 5
\* The write_all call on the sink that fails in Wallet::write: 1 .. MaxFailAt,
\* or none.
MaxFailAt == 10
\* The largest number of key/value pairs in an enumerated map stream.
MaxPairs == 4

\* ------------------------------------------------------------ value domains
\* A u32 (low, high, next_idx, a wildcard index) is held as its 32-bit pattern
\* read as a signed 32-bit integer, the integers of the model checker:
\* 0 .. 2^31 - 1 stand for themselves, -1 stands for 2^32 - 1 = u32::MAX and
\* -2 for 2^32 - 2.
U32Max == -1

\* Unsigned comparison of two u32.
ULe(a, b) == IF (a >= 0) = (b >= 0) THEN a <= b ELSE a >= 0
ULt(a, b) == a # b /\ ULe(a, b)

\* Option<u32>: None is the empty sequence, Some(v) the sequence <<v>>.
None == <<>>
Some(v) == <<v>>

\* Policy templates (miniscript descriptors with one wildcard key).  The two
\* name the same extended key A, so their instances share derivation paths
\* and differ in their scripts.
Templates == {"pkh(A/*)", "wpkh(A/*)"}
\* The extended key a template names.
KeyOrigin(desc) ==
    CASE desc = "pkh(A/*)" -> "A"
      [] desc = "wpkh(A/*)" -> "A"
      [] desc = "pkh(xpub/44h/0h/0h/2h/*h)" -> "xpub/44h/0h/0h/2h"
      [] OTHER -> "X"

\* The [low, high) a descriptor is registered with: adjacent, overlapping and
\* nested ranges, and an inverted one (low > high, no index).
Ranges == {<<0, 1>>, <<1, 2>>, <<0, 2>>, <<2, 1>>, <<0, 5>>, <<5, 10>>, <<0, 10>>}

\* Explicit wildcard indices handed to add_address: small ones, one beyond
\* every registered range, and the two largest 32-bit values.
ExplicitIdx == {0, 1, 3, U32Max - 1, U32Max}
WildcardArgs == {None} \cup {Some(v) : v \in ExplicitIdx}

Notes == {"note"}
Times == {"2021-01-01"}

\* The empty HashMap.
EmptyMap == [x \in {} |-> x]

\* HashMap::insert: insert or overwrite.
Insert(m, k, v) == [x \in (DOMAIN m) \cup {k} |-> IF x = k THEN v ELSE m[x]]

\* ------------------------------------------------------------------- state
VARIABLES
    block_height,   \* Wallet::block_height
    descriptors,    \* Wallet::descriptors, a sequence of Descriptor records
    addresses,      \* Wallet::addresses, script -> Address
    txos,           \* Wallet::txos, outpoint -> Txo
    key_cache,      \* Wallet::key_cache, derivation path -> public key
    spks,           \* the ScriptPubkeyCache last returned: None, or Some(script -> <<didx, widx>>)
    overflow_checks,\* whether the build panics on integer overflow (debug) or wraps (release)
    requests,       \* ghost: derivation path -> number of requests sent to the dongle
    refused,        \* ghost: derivation path -> number of those requests the dongle refused
    nfail,          \* ghost: number of requests the dongle refused
    used,           \* ghost: <<descriptor_idx, wildcard_idx>> of every add_address call so far
    ncalls,         \* ghost: number of calls made on the wallet
    ret,            \* ghost: the last call, its arguments and what it returned
    codec,          \* the value handed to the serialization, and what encode and decode made of it
    legacy          \* the audit-log wallet of src/wallet.rs and the import of its file

wallet == <<block_height, descriptors, addresses, txos, key_cache>>
vars == <<block_height, descriptors, addresses, txos, key_cache, spks,
          overflow_checks, requests, refused, nfail, used, ncalls, ret, codec, legacy>>

\* ------------------------------------------------------ hardware authority
\* The public key the dongle derives for a path (the dongle is deterministic).
PubKey(path) == <<"pk", path>>

\* The derivation path of a template's key at a wildcard index
\* (miniscript's derive(index) on the one wildcard key, taken as defined for
\* every u32 index).
derive(desc, index) == <<KeyOrigin(desc), index>>

\* The output script of a template instantiated with a public key.
script_pubkey(desc, pk) == [kind |-> desc, key |-> pk]

\* The state threaded through the derivations of one call: the key cache, the
\* paths requested from the dongle so far (in order), whether the last
\* derivation succeeded and the key it returned.
DeriveState(kc) == [kc |-> kc, reqs |-> <<>>, ok |-> TRUE, key |-> PubKey(<<"", 0>>)]

\* Dongle::get_wallet_public_key(key, key_cache): a cached path is answered from
\* the cache; otherwise one request is sent, and its answer is stored.  `refuse`
\* is the position (1, 2, ...) of the request of this call that the dongle
\* refuses, 0 when it answers them all.
get_wallet_public_key(st, path, refuse) ==
    IF path \in DOMAIN st.kc
    THEN [st EXCEPT !.ok = TRUE, !.key = st.kc[path]]
    ELSE IF refuse = Len(st.reqs) + 1
         THEN [st EXCEPT !.reqs = Append(st.reqs, path), !.ok = FALSE]
         ELSE [kc |-> Insert(st.kc, path, PubKey(path)),
               reqs |-> Append(st.reqs, path),
               ok |-> TRUE,
               key |-> PubKey(path)]

\* A cache_key that hands the dongle a fresh map instead of the wallet's key
\* cache and merges what comes back.
cache_key_fresh(st, desc, index, refuse) ==
    LET r == get_wallet_public_key([st EXCEPT !.kc = EmptyMap], derive(desc, index), refuse)
    IN  [r EXCEPT !.kc = [p \in (DOMAIN st.kc) \cup (DOMAIN r.kc) |->
                              IF p \in DOMAIN r.kc THEN r.kc[p] ELSE st.kc[p]]]

\* A cache_key that leaves in the key cache the key it translated only.
cache_key_evict(st, desc, index, refuse) ==
    LET r == get_wallet_public_key(st, derive(desc, index), refuse)
    IN  [r EXCEPT !.kc = [p \in (DOMAIN r.kc) \cap {derive(desc, index)} |-> r.kc[p]]]

\* Wallet::cache_key: translate the template's key at `index` through the
\* dongle and the key cache.  The script is script_pubkey(desc, result.key).
cache_key(st, desc, index, refuse) ==
    get_wallet_public_key(st, derive(desc, index), refuse)

\* ------------------------------------------------------------ add_descriptor
\* A duplicate test that compares high with low (d.high == low).
IsDuplicate_typo(ds, desc, low, high) ==
    \E k \in 1..Len(ds) : ds[k].desc = desc /\ ds[k].low = low /\ ds[k].high = low

\* A duplicate test that looks at the last registered descriptor only.
IsDuplicate_last(ds, desc, low, high) ==
    /\ ds # <<>>
    /\ ds[Len(ds)].desc = desc /\ ds[Len(ds)].low = low /\ ds[Len(ds)].high = high

\* The early return of add_descriptor's first loop: same template, low and high.
IsDuplicate(ds, desc, low, high) ==
    \E k \in 1..Len(ds) : ds[k].desc = desc /\ ds[k].low = low /\ ds[k].high = high

\* existing_indices with the high end included (d.low..=d.high).
existing_indices_inclusive(ds, desc) ==
    UNION {ds[k].low .. ds[k].high : k \in {j \in 1..Len(ds) : ds[j].desc = desc}}

\* existing_indices after the first loop: every index of a registered
\* descriptor with the same template (low and high below 2^31).
existing_indices(ds, desc) ==
    UNION {ds[k].low .. (ds[k].high - 1) : k \in {j \in 1..Len(ds) : ds[j].desc = desc}}

\* A second loop that goes on to the remaining indices after a failed
\* derivation and reports the failure at the end.
RECURSIVE derive_new_continue(_, _, _, _, _, _, _)
derive_new_continue(st, desc, i, high, existing, refuse, added_new) ==
    IF i >= high
    THEN [st |-> st, added_new |-> added_new]
    ELSE IF i \in existing
         THEN derive_new_continue(st, desc, i + 1, high, existing, refuse, added_new)
         ELSE LET st2  == cache_key(st, desc, i, refuse)
                  rest == derive_new_continue(st2, desc, i + 1, high, existing, refuse,
                                              added_new + 1)
              IN  IF ~st2.ok
                  THEN [st |-> [rest.st EXCEPT !.ok = FALSE], added_new |-> rest.added_new]
                  ELSE rest

\* The second loop of add_descriptor, from index i on: added_new is
\* incremented, then the key is derived; a failed derivation returns at once.
RECURSIVE derive_new(_, _, _, _, _, _, _)
derive_new(st, desc, i, high, existing, refuse, added_new) ==
    IF i >= high
    THEN [st |-> st, added_new |-> added_new]
    ELSE IF i \in existing
         THEN derive_new(st, desc, i + 1, high, existing, refuse, added_new)
         ELSE LET st2 == cache_key(st, desc, i, refuse)
              IN  IF ~st2.ok
                  THEN [st |-> st2, added_new |-> added_new + 1]
                  ELSE derive_new(st2, desc, i + 1, high, existing, refuse, added_new + 1)

\* A pushed descriptor whose next_idx starts at low.
NewDescriptor_low(desc, low, high) ==
    [desc |-> desc, low |-> low, high |-> high, next_idx |-> low]

\* Descriptor { desc, low, high, next_idx: 0 } as pushed by add_descriptor.
NewDescriptor(desc, low, high) ==
    [desc |-> desc, low |-> low, high |-> high, next_idx |-> 0]

\* An add_descriptor that pushes the descriptor although a derivation failed.
add_descriptor_push_on_error(ds, kc, desc, low, high, refuse) ==
    IF IsDuplicate(ds, desc, low, high)
    THEN [descriptors |-> ds, st |-> DeriveState(kc),
          err |-> "DuplicateDescriptor", val |-> 0]
    ELSE LET r == derive_new(DeriveState(kc), desc, low, high,
                             existing_indices(ds, desc), refuse, 0)
         IN  [descriptors |-> Append(ds, NewDescriptor(desc, low, high)),
              st |-> r.st, err |-> IF r.st.ok THEN "none" ELSE "Dongle",
              val |-> IF r.st.ok THEN r.added_new ELSE 0]

\* Wallet::add_descriptor on descriptor list ds and key cache kc.
add_descriptor(ds, kc, desc, low, high, refuse) ==
    IF IsDuplicate(ds, desc, low, high)
    THEN [descriptors |-> ds, st |-> DeriveState(kc),
          err |-> "DuplicateDescriptor", val |-> 0]
    ELSE LET r == derive_new(DeriveState(kc), desc, low, high,
                             existing_indices(ds, desc), refuse, 0)
         IN  IF ~r.st.ok
             THEN [descriptors |-> ds, st |-> r.st, err |-> "Dongle", val |-> 0]
             ELSE [descriptors |-> Append(ds, NewDescriptor(desc, low, high)),
                   st |-> r.st, err |-> "none", val |-> r.added_new]

\* --------------------------------------------------------------- add_address
\* cmp::max on u32.
Max(a, b) == IF ULe(b, a) THEN a ELSE b

\* cmp::max(*next_idx, wildcard_idx) + 1 on u32: the sum, and whether the
\* addition overflows (the sum is then the wrapped value, 0).
advance_next_idx(next_idx, wildcard_idx) ==
    LET m == Max(next_idx, wildcard_idx)
    IN  [overflow |-> m = U32Max, sum |-> IF m = U32Max THEN 0 ELSE m + 1]

\* Address::new(descriptor_idx, wildcard_idx, time, notes).
NewAddress(descriptor_idx, wildcard_idx, time, notes) ==
    [descriptor_idx |-> descriptor_idx, wildcard_idx |-> wildcard_idx,
     time |-> time, notes |-> notes]

\* Wallet::add_address.  descriptor_idx counts from 0; wildcard_idx is None or
\* a u32.  An out-of-range descriptor_idx panics on the slice index; the u32
\* addition panics when the build checks overflow and wraps when it does not.
add_address(ds, addrs, kc, descriptor_idx, wildcard_idx, time, notes, refuse, checks) ==
    IF descriptor_idx >= Len(ds)
    THEN [descriptors |-> ds, addresses |-> addrs, st |-> DeriveState(kc),
          err |-> "Panic", val |-> 0]
    ELSE
    LET d    == ds[descriptor_idx + 1]
        widx == IF wildcard_idx = None THEN d.next_idx ELSE wildcard_idx[1]
        adv  == advance_next_idx(d.next_idx, widx)
    IN  IF adv.overflow /\ checks
        THEN [descriptors |-> ds, addresses |-> addrs, st |-> DeriveState(kc),
              err |-> "Panic", val |-> widx]
        ELSE
        LET ds2 == [ds EXCEPT ![descriptor_idx + 1].next_idx = adv.sum]
            st  == cache_key(DeriveState(kc), d.desc, widx, refuse)
        IN  IF ~st.ok
            THEN [descriptors |-> ds2, addresses |-> addrs, st |-> st,
                  err |-> "Dongle", val |-> widx]
            ELSE [descriptors |-> ds2,
                  addresses |-> Insert(addrs, script_pubkey(d.desc, st.key),
                                       NewAddress(descriptor_idx, widx, time, notes)),
                  st |-> st, err |-> "none", val |-> widx]

\* ------------------------------------------------------------------- txo
OutPoint(txid, vout) == [txid |-> txid, vout |-> vout]

\* A lookup that derives a key of the first descriptor before it looks the
\* outpoint up.
txo_derive_first(ds, addrs, txs, kc, outpoint, refuse) ==
    LET st == IF ds = <<>>
              THEN DeriveState(kc)
              ELSE get_wallet_public_key(DeriveState(kc),
                                         derive(ds[1].desc, ds[1].high), refuse)
    IN  [st |-> st,
         err |-> IF ~st.ok THEN "Dongle"
                 ELSE IF outpoint \in DOMAIN txs THEN "none" ELSE "TxoNotFound",
         arg |-> IF st.ok /\ outpoint \notin DOMAIN txs THEN Some(outpoint) ELSE None,
         info |-> <<>>]

\* Wallet::txo: the lookup of a tracked output.  An untracked outpoint is the
\* error TxoNotFound(outpoint), whose outpoint is `arg`; a descriptor index beyond the list panics on the slice
\* index; the key is translated through the dongle and the key cache.
txo(ds, addrs, txs, kc, outpoint, refuse) ==
    IF outpoint \notin DOMAIN txs
    THEN [st |-> DeriveState(kc), err |-> "TxoNotFound", arg |-> Some(outpoint),
          info |-> <<>>]
    ELSE
    LET t == txs[outpoint]
    IN  IF ~ULt(t.descriptor_idx, Len(ds))
        THEN [st |-> DeriveState(kc), err |-> "Panic", arg |-> None, info |-> <<>>]
        ELSE
        LET d   == ds[t.descriptor_idx + 1]
            st  == get_wallet_public_key(DeriveState(kc), derive(d.desc, t.wildcard_idx), refuse)
            spk == script_pubkey(d.desc, st.key)
        IN  IF ~st.ok
            THEN [st |-> st, err |-> "Dongle", arg |-> None, info |-> <<>>]
            ELSE [st |-> st, err |-> "none", arg |-> None,
                  info |-> <<[txo |-> t, address |-> spk, descriptor |-> d,
                              address_info |-> IF spk \in DOMAIN addrs
                                               THEN <<addrs[spk]>> ELSE <<>>]>>]

\* ------------------------------------------------------ script_pubkey_cache
\* Index loops that record the position of the descriptor counted from 1.
RECURSIVE build_spks_one_based(_, _, _, _, _, _)
build_spks_one_based(st, map, ds, k, widx, refuse) ==
    IF k > Len(ds)
    THEN [st |-> st, map |-> map]
    ELSE IF widx >= ds[k].high
         THEN IF k = Len(ds)
              THEN [st |-> st, map |-> map]
              ELSE build_spks_one_based(st, map, ds, k + 1, ds[k + 1].low, refuse)
         ELSE LET st2 == cache_key(st, ds[k].desc, widx, refuse)
              IN  IF ~st2.ok
                  THEN [st |-> st2, map |-> map]
                  ELSE build_spks_one_based(st2,
                                            Insert(map, script_pubkey(ds[k].desc, st2.key),
                                                   <<k, widx>>),
                                            ds, k, widx + 1, refuse)

\* The loops of script_pubkey_cache from descriptor k (counted from 1) and
\* wildcard index widx on: every key is derived through cache_key and the
\* script inserted; a failed derivation returns the error at once.
RECURSIVE build_spks(_, _, _, _, _, _)
build_spks(st, map, ds, k, widx, refuse) ==
    IF k > Len(ds)
    THEN [st |-> st, map |-> map]
    ELSE IF widx >= ds[k].high
         THEN IF k = Len(ds)
              THEN [st |-> st, map |-> map]
              ELSE build_spks(st, map, ds, k + 1, ds[k + 1].low, refuse)
         ELSE LET st2 == cache_key(st, ds[k].desc, widx, refuse)
              IN  IF ~st2.ok
                  THEN [st |-> st2, map |-> map]
                  ELSE build_spks(st2,
                                  Insert(map, script_pubkey(ds[k].desc, st2.key),
                                         <<k - 1, widx>>),
                                  ds, k, widx + 1, refuse)

\* An index of the first descriptor only.
script_pubkey_cache_first(ds, kc, refuse) ==
    LET r == IF ds = <<>>
             THEN [st |-> DeriveState(kc), map |-> EmptyMap]
             ELSE build_spks(DeriveState(kc), EmptyMap, SubSeq(ds, 1, 1), 1, ds[1].low, refuse)
    IN  IF ~r.st.ok
        THEN [st |-> r.st, err |-> "Dongle", spks |-> EmptyMap]
        ELSE [st |-> r.st, err |-> "none", spks |-> r.map]

\* Wallet::script_pubkey_cache.
script_pubkey_cache(ds, kc, refuse) ==
    LET r == IF ds = <<>>
             THEN [st |-> DeriveState(kc), map |-> EmptyMap]
             ELSE build_spks(DeriveState(kc), EmptyMap, ds, 1, ds[1].low, refuse)
    IN  IF ~r.st.ok
        THEN [st |-> r.st, err |-> "Dongle", spks |-> EmptyMap]
        ELSE [st |-> r.st, err |-> "none", spks |-> r.map]

\* --------------------------------------------------------------- scan_block
\* Txo::new(descriptor_idx, wildcard_idx, outpoint, value, height): unspent.
NewTxo(descriptor_idx, wildcard_idx, outpoint, value, height) ==
    [descriptor_idx |-> descriptor_idx, wildcard_idx |-> wildcard_idx,
     outpoint |-> outpoint, value |-> value, height |-> height,
     spending_txid |-> None, spent_height |-> None]

\* Txo::set_spent(txid, height).
set_spent(t, txid, height) ==
    [t EXCEPT !.spending_txid = Some(txid), !.spent_height = Some(height)]

\* An output loop that keeps the Txo an outpoint already has (no overwrite).
RECURSIVE scan_outputs_keep(_, _, _, _, _)
scan_outputs_keep(sc, tx, vout, height, cache) ==
    IF vout >= Len(tx.output)
    THEN sc
    ELSE LET output   == tx.output[vout + 1]
             outpoint == OutPoint(tx.txid, vout)
         IN  IF output.script_pubkey \in DOMAIN cache
             THEN LET hit == cache[output.script_pubkey]
                  IN  scan_outputs_keep(
                          [txos |-> IF outpoint \in DOMAIN sc.txos
                                    THEN sc.txos
                                    ELSE Insert(sc.txos, outpoint,
                                                NewTxo(hit[1], hit[2], outpoint,
                                                       output.value, height)),
                           received |-> sc.received \cup {outpoint},
                           spent |-> sc.spent],
                          tx, vout + 1, height, cache)
             ELSE scan_outputs_keep(sc, tx, vout + 1, height, cache)

\* The loop over the outputs of tx, from output number vout (counted from 0),
\* on the state sc of the scan: the txo map and the two returned sets.
RECURSIVE scan_outputs(_, _, _, _, _)
scan_outputs(sc, tx, vout, height, cache) ==
    IF vout >= Len(tx.output)
    THEN sc
    ELSE LET output   == tx.output[vout + 1]
             outpoint == OutPoint(tx.txid, vout)
         IN  IF output.script_pubkey \in DOMAIN cache
             THEN LET hit == cache[output.script_pubkey]
                  IN  scan_outputs(
                          [txos |-> Insert(sc.txos, outpoint,
                                           NewTxo(hit[1], hit[2], outpoint, output.value, height)),
                           received |-> sc.received \cup {outpoint},
                           spent |-> sc.spent],
                          tx, vout + 1, height, cache)
             ELSE scan_outputs(sc, tx, vout + 1, height, cache)

\* An input loop that reports a spent outpoint without marking its Txo.
RECURSIVE scan_inputs_unmarked(_, _, _, _)
scan_inputs_unmarked(sc, tx, k, height) ==
    IF k > Len(tx.input)
    THEN sc
    ELSE LET prev == tx.input[k]
         IN  IF prev \in DOMAIN sc.txos
             THEN scan_inputs_unmarked(
                      [txos |-> sc.txos,
                       received |-> sc.received,
                       spent |-> sc.spent \cup {prev}],
                      tx, k + 1, height)
             ELSE scan_inputs_unmarked(sc, tx, k + 1, height)

\* An input loop that drops a spent Txo from the map.
RECURSIVE scan_inputs_remove(_, _, _, _)
scan_inputs_remove(sc, tx, k, height) ==
    IF k > Len(tx.input)
    THEN sc
    ELSE LET prev == tx.input[k]
         IN  IF prev \in DOMAIN sc.txos
             THEN scan_inputs_remove(
                      [txos |-> [o \in (DOMAIN sc.txos) \ {prev} |-> sc.txos[o]],
                       received |-> sc.received,
                       spent |-> sc.spent \cup {prev}],
                      tx, k + 1, height)
             ELSE scan_inputs_remove(sc, tx, k + 1, height)

\* The loop over the inputs of tx, from input number k (counted from 1).
RECURSIVE scan_inputs(_, _, _, _)
scan_inputs(sc, tx, k, height) ==
    IF k > Len(tx.input)
    THEN sc
    ELSE LET prev == tx.input[k]
         IN  IF prev \in DOMAIN sc.txos
             THEN scan_inputs(
                      [txos |-> Insert(sc.txos, prev, set_spent(sc.txos[prev], tx.txid, height)),
                       received |-> sc.received,
                       spent |-> sc.spent \cup {prev}],
                      tx, k + 1, height)
             ELSE scan_inputs(sc, tx, k + 1, height)

\* A loop over the transactions of the block from the last to the first.
RECURSIVE scan_txs_backwards(_, _, _, _, _)
scan_txs_backwards(sc, block, k, height, cache) ==
    IF k > Len(block)
    THEN sc
    ELSE LET tx == block[Len(block) + 1 - k]
         IN  scan_txs_backwards(scan_inputs(scan_outputs(sc, tx, 0, height, cache),
                                            tx, 1, height),
                                block, k + 1, height, cache)

\* The loop over the transactions of the block, from transaction k on:
\* the outputs of a transaction, then its inputs.
RECURSIVE scan_txs(_, _, _, _, _)
scan_txs(sc, block, k, height, cache) ==
    IF k > Len(block)
    THEN sc
    ELSE scan_txs(scan_inputs(scan_outputs(sc, block[k], 0, height, cache),
                              block[k], 1, height),
                  block, k + 1, height, cache)

\* Wallet::scan_block on txo map txs.
scan_block(txs, block, height, cache) ==
    scan_txs([txos |-> txs, received |-> {}, spent |-> {}], block, 1, height, cache)

\* ------------------------------------------------------------- serialization
\* The bounds of src/lib/wallet/serialize.rs.
MAX_SCRIPTPUBKEY_SIZE == 50
MAX_VEC_ELEMS == 10000
MAX_STRING_LEN == 100000
MAX_DESCRIPTOR_LEN == 64 * 1024

\* A byte stream is a sequence of bytes 0 .. 255.  n copies of byte b:
Repeat(b, n) == [i \in 1..n |-> b]

\* The four bytes of a u32 written most significant first.
U32Bytes_be(v) ==
    LET low31 == IF v >= 0 THEN v ELSE (v + 2147483647) + 1
    IN  <<(low31 \div 16777216) + (IF v >= 0 THEN 0 ELSE 128),
          (low31 \div 65536) % 256,
          (low31 \div 256) % 256,
          low31 % 256>>

\* The four bytes of a u32, least significant first (the casts and shifts of
\* u32::write_to).  A u32 with its top bit set is a negative pattern; its low
\* 31 bits are the pattern plus 2^31.
U32Bytes(v) ==
    LET low31 == IF v >= 0 THEN v ELSE (v + 2147483647) + 1
    IN  <<low31 % 256,
          (low31 \div 256) % 256,
          (low31 \div 65536) % 256,
          (low31 \div 16777216) + (IF v >= 0 THEN 0 ELSE 128)>>

\* The u32 of four bytes read most significant first.
U32Of_be(dat) ==
    LET low31 == dat[4] + 256 * dat[3] + 65536 * dat[2] + 16777216 * (dat[1] % 128)
    IN  IF dat[1] < 128 THEN low31 ELSE (low31 - 2147483647) - 1

\* The u32 of four bytes (the sum of shifts of u32::read_from), as a pattern.
U32Of(dat) ==
    LET low31 == dat[1] + 256 * dat[2] + 65536 * dat[3] + 16777216 * (dat[4] % 128)
    IN  IF dat[4] < 128 THEN low31 ELSE (low31 - 2147483647) - 1

\* A u64 is the record of its two 32-bit halves.
U64(lo, hi) == [lo |-> lo, hi |-> hi]

\* The types with a Serialize impl, as tags.
TU8 == [t |-> "u8"]
TU32 == [t |-> "u32"]
TU64 == [t |-> "u64"]
TTxid == [t |-> "Txid"]
TOutPoint == [t |-> "OutPoint"]
TString == [t |-> "String"]
TPublicKey == [t |-> "PublicKey"]
TDerivationPath == [t |-> "DerivationPath"]
TMiniscript == [t |-> "miniscript::Descriptor"]
TScript == [t |-> "Script"]
TDescriptor == [t |-> "Descriptor"]
TAddress == [t |-> "Address"]
TTxo == [t |-> "Txo"]
TWallet == [t |-> "Wallet"]
TVec(T) == [t |-> "Vec", e |-> T]
THashSet(T) == [t |-> "HashSet", e |-> T]
THashMap(K, V) == [t |-> "HashMap", k |-> K, v |-> V]
\* The optional spent fields of a Txo.
TOption(T) == [t |-> "Option", e |-> T]

\* ---- the writer
\* The writer handed to write_to: the payload bytes it has taken, the number
\* of calls made on it, the call that fails (0: none), whether the build has
\* debug assertions, the error of the first failed operation, and the steps
\* of the encrypted writer's lifecycle taken so far.
\* Every operation on a writer that has failed is skipped: that is the `?`
\* after every call.
Writer(failat, debug) ==
    [bytes |-> <<>>, calls |-> 0, failat |-> failat, debug |-> debug,
     ok |-> TRUE, err |-> "none", panic |-> FALSE, steps |-> <<>>]

\* Write::write_all on the writer.
write_all(w, data) ==
    IF ~w.ok THEN w
    ELSE IF w.calls + 1 = w.failat
         THEN [w EXCEPT !.calls = @ + 1, !.ok = FALSE, !.err = "Sink"]
         ELSE [w EXCEPT !.calls = @ + 1, !.bytes = @ \o data]

\* return Err(io::Error::new(io::ErrorKind::InvalidData, ...)).
invalid_data(w) == IF ~w.ok THEN w ELSE [w EXCEPT !.ok = FALSE, !.err = "InvalidData"]

\* ---- library conversions used by the impls
\* A policy template as the codec sees it: its kind and the number of steps of
\* the origin path of its key (0: a key without origin).  to_string is its
\* canonical text: kind "(" [ "[d34db33f" { "/0" } "]" ] "A/*)".
KindText(kind) ==
    IF kind = "pkh" THEN <<112, 107, 104, 40>> ELSE <<119, 112, 107, 104, 40>>
OriginText(n) ==
    IF n = 0 THEN <<>>
    ELSE <<91, 100, 51, 52, 100, 98, 51, 51, 102>>
         \o [i \in 1..(2 * n) |-> IF i % 2 = 1 THEN 47 ELSE 48] \o <<93>>
to_string(d) == KindText(d.kind) \o OriginText(d.origin) \o <<65, 47, 42, 41>>

\* miniscript::Descriptor::from_str: the template whose canonical text is s,
\* if there is one (None otherwise).  The number of origin steps follows from
\* the length of the text.
from_str(text) ==
    LET cands == {[kind |-> k, origin |-> n] :
                     k \in {"pkh", "wpkh"},
                     n \in {0} \cup {m \in {(Len(text) - 18) \div 2,
                                            (Len(text) - 19) \div 2} : m >= 1}}
        hits  == {d \in cands : to_string(d) = text}
    IN  IF hits = {} THEN None ELSE Some(CHOOSE d \in hits : TRUE)

\* String::from_utf8 on text of one- and two-byte characters: every byte is
\* ASCII, or the lead byte of a two-byte character followed by a continuation
\* byte, or a continuation byte after such a lead byte.
from_utf8_ok(data) ==
    \A i \in 1..Len(data) :
        \/ data[i] < 128
        \/ /\ 194 <= data[i] /\ data[i] <= 223
           /\ i < Len(data) /\ 128 <= data[i + 1] /\ data[i + 1] <= 191
        \/ /\ 128 <= data[i] /\ data[i] <= 191
           /\ i > 1 /\ 194 <= data[i - 1] /\ data[i - 1] <= 223

\* bitcoin::PublicKey::from_slice: 33 bytes led by 2 or 3 (compressed) or 65
\* bytes led by 4, 6 or 7 (uncompressed), the coordinates taken as on the curve.
from_slice_ok(data) ==
    \/ Len(data) = 33 /\ data[1] \in {2, 3}
    \/ Len(data) = 65 /\ data[1] \in {4, 6, 7}

\* A public key is its point serialization and whether it is compressed.
Key(data) == [compressed |-> Len(data) = 33, data |-> data]

\* bip32::ChildNumber and its conversions to and from u32: the hardened bit is
\* the top bit of the u32.
Normal(index) == [hardened |-> FALSE, index |-> index]
Hardened(index) == [hardened |-> TRUE, index |-> index]
ChildToU32(c) == IF c.hardened THEN (c.index - 2147483647) - 1 ELSE c.index
ChildFromU32(n) == IF n < 0 THEN Hardened((n + 2147483647) + 1) ELSE Normal(n)

\* ---- write_to
\* T::write_to(&self, w) for every type T with an impl: x is the value, w the
\* writer, the result the writer afterwards.  A Vec and a HashSet are the
\* sequence of their elements, a HashMap the sequence of its <<key, value>>
\* pairs, both in iteration order; a String and a Script are their bytes.
RECURSIVE write_to(_, _, _)
RECURSIVE write_elems(_, _, _, _, _)

\* The loop `for t in self { t.write_to(&mut w)?; }` over the elements
\* lo .. hi of x (for a map: key, then value), evaluated by halves.
write_elems(T, x, lo, hi, w) ==
    IF lo > hi \/ ~w.ok THEN w
    ELSE IF lo = hi
         THEN IF T.t = "HashMap"
              THEN write_to(T.v, x[lo][2], write_to(T.k, x[lo][1], w))
              ELSE write_to(T.e, x[lo], w)
         ELSE LET mid == (lo + hi) \div 2
              IN  write_elems(T, x, mid + 1, hi, write_elems(T, x, lo, mid, w))

\* A length-prefixed value written with the length prefix before the check.
write_bytes_prefix_first(data, max, w) ==
    IF Len(data) > max THEN invalid_data(write_all(w, U32Bytes(Len(data))))
    ELSE write_all(write_all(w, U32Bytes(Len(data))), data)

\* The length check, the length prefix and the payload of a length-prefixed
\* value whose bytes are `data`.
write_bytes(data, max, w) ==
    IF Len(data) > max THEN invalid_data(w)
    ELSE write_all(write_all(w, U32Bytes(Len(data))), data)

\* PublicKey::write_to is Ok(self.write_into(w)): write_into returns nothing,
\* so a failure of the writer is not passed on: the debug assertion panics
\* where assertions are compiled in, and the failure is dropped elsewhere.
write_into(x, w) ==
    LET w2 == write_all(w, x.data)
    IN  IF ~w.ok \/ w2.ok THEN w2
        ELSE IF w.debug THEN [w2 EXCEPT !.err = "Panic", !.panic = TRUE]
             ELSE [w2 EXCEPT !.ok = TRUE, !.err = "none"]

write_to(T, x, w) ==
    IF ~w.ok THEN w
    ELSE CASE T.t = "u8" -> write_all(w, <<x>>)
           [] T.t = "u32" -> write_all(w, U32Bytes(x))
           [] T.t = "u64" -> write_to(TU32, x.hi, write_to(TU32, x.lo, w))
           [] T.t = "Txid" -> write_all(w, x)
           [] T.t = "OutPoint" -> write_to(TU32, x.vout, write_to(TTxid, x.txid, w))
           [] T.t \in {"Vec", "HashSet", "HashMap"} ->
                IF Len(x) > MAX_VEC_ELEMS THEN invalid_data(w)
                ELSE write_elems(T, x, 1, Len(x), write_to(TU32, Len(x), w))
           [] T.t = "String" -> write_bytes(x, MAX_STRING_LEN, w)
           [] T.t = "PublicKey" -> write_into(x, w)
           [] T.t = "DerivationPath" ->
                write_to(TVec(TU32), [i \in 1..Len(x) |-> ChildToU32(x[i])], w)
           [] T.t = "miniscript::Descriptor" ->
                write_all(write_to(TU32, Len(to_string(x)), w), to_string(x))
           [] T.t = "Script" -> write_bytes(x, MAX_SCRIPTPUBKEY_SIZE, w)
           [] T.t = "Descriptor" ->
                write_to(TU32, x.next_idx,
                  write_to(TU32, x.high,
                    write_to(TU32, x.low,
                      write_to(TMiniscript, x.desc, w))))
           [] T.t = "Address" ->
                write_to(TString, x.notes,
                  write_to(TString, x.time,
                    write_to(TU32, x.wildcard_idx,
                      write_to(TU32, x.descriptor_idx, w))))
           [] T.t = "Option" ->
                IF x = None THEN write_to(TU8, 0, w)
                ELSE write_to(T.e, x[1], write_to(TU8, 1, w))
           [] T.t = "Txo" ->
                write_to(TOption(TU64), x.spent_height,
                  write_to(TOption(TTxid), x.spending_txid,
                    write_to(TU64, x.height,
                      write_to(TU64, x.value,
                        write_to(TOutPoint, x.outpoint,
                          write_to(TU32, x.wildcard_idx,
                            write_to(TU32, x.descriptor_idx, w)))))))
           [] T.t = "Wallet" ->
                write_to(THashMap(TDerivationPath, TPublicKey), x.key_cache,
                  write_to(THashMap(TOutPoint, TTxo), x.txos,
                    write_to(THashMap(TScript, TAddress), x.addresses,
                      write_to(TVec(TDescriptor), x.descriptors,
                        write_to(TU64, x.block_height, w)))))

\* ---- Wallet::write
\* CryptWriter::init and CryptWriter::finalize: one call each on the sink
\* (framing, flush), which may fail; the step is recorded with the number of
\* payload bytes written before it.
lifecycle(w, step) ==
    IF ~w.ok THEN w
    ELSE LET done == w.calls + 1 # w.failat
             w2   == [w EXCEPT !.calls = @ + 1,
                               !.steps = Append(@, [step |-> step, ok |-> done,
                                                    at |-> Len(w.bytes)])]
         IN  IF done THEN w2 ELSE [w2 EXCEPT !.ok = FALSE, !.err = "Sink"]

\* Wallet::write: init, the wallet's write_to, finalize, each followed by `?`.
Wallet_write(x, failat, debug) ==
    lifecycle(write_to(TWallet, x, lifecycle(Writer(failat, debug), "init")), "finalize")

\* ---- the reader
\* The reader handed to read_from: the bytes of the source, the number of
\* bytes consumed, the error of the first failed operation, and the buffers
\* requested from the allocator whose size is a length read from the source
\* (what is allocated and for how many elements or bytes).
Reader(src) == [src |-> src, pos |-> 0, ok |-> TRUE, err |-> "none", allocs |-> <<>>]

\* Return an error of the given io::ErrorKind.
fail(r, kind) == IF ~r.ok THEN r ELSE [r EXCEPT !.ok = FALSE, !.err = kind]

\* The result of a read that failed.
Failed(r) == [r |-> r, val |-> <<>>]

\* Read::read_exact of n bytes: a source that ends early is UnexpectedEof.
read_exact(r, n) ==
    IF ~r.ok THEN Failed(r)
    ELSE IF r.pos + n > Len(r.src) THEN Failed(fail(r, "UnexpectedEof"))
         ELSE [r |-> [r EXCEPT !.pos = @ + n],
               val |-> SubSeq(r.src, r.pos + 1, r.pos + n)]

\* Vec::with_capacity(n), HashSet::with_capacity(n), HashMap::with_capacity(n)
\* and vec![0; n].
allocate(r, what, n) ==
    IF ~r.ok THEN r ELSE [r EXCEPT !.allocs = Append(@, [what |-> what, n |-> n])]

\* An insertion that keeps for a key the value inserted first.
Inserted_first(T, a, b) ==
    CASE T.t = "Vec" -> a \o b
      [] T.t = "HashSet" ->
           a \o SelectSeq(b, LAMBDA e : e \notin {a[i] : i \in 1..Len(a)})
      [] T.t = "HashMap" ->
           a \o SelectSeq(b, LAMBDA e : e[1] \notin {a[i][1] : i \in 1..Len(a)})

\* The elements a and then the elements b pushed or inserted into a
\* collection of type T: a Vec keeps all, a HashSet keeps one of two equal
\* elements, a HashMap keeps for a key the value inserted last.
Inserted(T, a, b) ==
    CASE T.t = "Vec" -> a \o b
      [] T.t = "HashSet" ->
           SelectSeq(a, LAMBDA e : e \notin {b[i] : i \in 1..Len(b)}) \o b
      [] T.t = "HashMap" ->
           SelectSeq(a, LAMBDA e : e[1] \notin {b[i][1] : i \in 1..Len(b)}) \o b

\* T::read_from(r) for every type T with an impl: the reader afterwards and
\* the value read.
RECURSIVE read_from(_, _)
RECURSIVE read_elems(_, _, _)

\* The loop `for _ in 0..len32 { ret.push(Serialize::read_from(&mut r)?); }`
\* (insert for a set, insert of key and value for a map) for n elements,
\* evaluated by halves.
read_elems(T, r, n) ==
    IF n = 0 \/ ~r.ok THEN [r |-> r, val |-> <<>>]
    ELSE IF n = 1
         THEN IF T.t = "HashMap"
              THEN LET k == read_from(T.k, r)
                       v == read_from(T.v, k.r)
                   IN  IF v.r.ok THEN [r |-> v.r, val |-> <<<<k.val, v.val>>>>]
                       ELSE Failed(v.r)
              ELSE LET e == read_from(T.e, r)
                   IN  IF e.r.ok THEN [r |-> e.r, val |-> <<e.val>>] ELSE Failed(e.r)
         ELSE LET a == read_elems(T, r, n \div 2)
                  b == read_elems(T, a.r, n - (n \div 2))
              IN  IF b.r.ok THEN [r |-> b.r, val |-> Inserted(T, a.val, b.val)]
                  ELSE Failed(b.r)

\* String::read_from and Script::read_from up to the payload: the length
\* prefix, the buffer of that length, the check of the length, the payload.
read_bytes(what, max, r) ==
    LET len == read_from(TU32, r)
        r1  == allocate(len.r, what, len.val)
    IN  IF ~len.r.ok THEN Failed(len.r)
        ELSE IF ULt(max, len.val) THEN Failed(fail(r1, "InvalidData"))
             ELSE read_exact(r1, len.val)

read_from(T, r) ==
    IF ~r.ok THEN Failed(r)
    ELSE CASE T.t = "u8" ->
                LET d == read_exact(r, 1)
                IN  IF d.r.ok THEN [r |-> d.r, val |-> d.val[1]] ELSE Failed(d.r)
           [] T.t = "u32" ->
                LET d == read_exact(r, 4)
                IN  IF d.r.ok THEN [r |-> d.r, val |-> U32Of(d.val)] ELSE Failed(d.r)
           [] T.t = "u64" ->
                LET lo == read_from(TU32, r)
                    hi == read_from(TU32, lo.r)
                IN  IF hi.r.ok THEN [r |-> hi.r, val |-> U64(lo.val, hi.val)]
                    ELSE Failed(hi.r)
           [] T.t = "Txid" -> read_exact(r, 32)
           [] T.t = "OutPoint" ->
                LET txid == read_from(TTxid, r)
                    vout == read_from(TU32, txid.r)
                IN  IF vout.r.ok THEN [r |-> vout.r, val |-> OutPoint(txid.val, vout.val)]
                    ELSE Failed(vout.r)
           [] T.t \in {"Vec", "HashSet", "HashMap"} ->
                LET len == read_from(TU32, r)
                    r1  == allocate(len.r, T.t, len.val)
                IN  IF ~len.r.ok THEN Failed(len.r)
                    ELSE IF ULt(MAX_VEC_ELEMS, len.val)
                         THEN Failed(fail(r1, "InvalidData"))
                         ELSE read_elems(T, r1, len.val)
           [] T.t = "String" ->
                LET d == read_bytes("String", MAX_STRING_LEN, r)
                IN  IF ~d.r.ok THEN d
                    ELSE IF from_utf8_ok(d.val) THEN d
                         ELSE Failed(fail(d.r, "InvalidData"))
           [] T.t = "PublicKey" ->
                LET head == read_exact(r, 1)
                    rest == read_exact(head.r, IF head.val[1] < 4 THEN 32 ELSE 64)
                IN  IF ~head.r.ok THEN Failed(head.r)
                    ELSE IF ~rest.r.ok THEN Failed(rest.r)
                    ELSE IF from_slice_ok(head.val \o rest.val)
                         THEN [r |-> rest.r, val |-> Key(head.val \o rest.val)]
                         ELSE Failed(fail(rest.r, "InvalidData"))
           [] T.t = "DerivationPath" ->
                LET path == read_from(TVec(TU32), r)
                IN  IF ~path.r.ok THEN path
                    ELSE [r |-> path.r,
                          val |-> [i \in 1..Len(path.val) |-> ChildFromU32(path.val[i])]]
           [] T.t = "miniscript::Descriptor" ->
                LET len  == read_from(TU32, r)
                    data == read_exact(allocate(len.r, "miniscript::Descriptor", len.val),
                                       len.val)
                IN  IF ~len.r.ok THEN Failed(len.r)
                    ELSE IF ULt(MAX_DESCRIPTOR_LEN, len.val)
                         THEN Failed(fail(len.r, "InvalidData"))
                    ELSE IF ~data.r.ok THEN Failed(data.r)
                    ELSE IF ~from_utf8_ok(data.val) \/ from_str(data.val) = None
                         THEN Failed(fail(data.r, "InvalidData"))
                         ELSE [r |-> data.r, val |-> from_str(data.val)[1]]
           [] T.t = "Script" -> read_bytes("Script", MAX_SCRIPTPUBKEY_SIZE, r)
           [] T.t = "Descriptor" ->
                LET desc     == read_from(TMiniscript, r)
                    low      == read_from(TU32, desc.r)
                    high     == read_from(TU32, low.r)
                    next_idx == read_from(TU32, high.r)
                IN  IF next_idx.r.ok
                    THEN [r |-> next_idx.r,
                          val |-> [desc |-> desc.val, low |-> low.val,
                                   high |-> high.val, next_idx |-> next_idx.val]]
                    ELSE Failed(next_idx.r)
           [] T.t = "Address" ->
                LET descriptor_idx == read_from(TU32, r)
                    wildcard_idx   == read_from(TU32, descriptor_idx.r)
                    time           == read_from(TString, wildcard_idx.r)
                    notes          == read_from(TString, time.r)
                IN  IF notes.r.ok
                    THEN [r |-> notes.r,
                          val |-> NewAddress(descriptor_idx.val, wildcard_idx.val,
                                             time.val, notes.val)]
                    ELSE Failed(notes.r)
           [] T.t = "Option" ->
                LET flag == read_from(TU8, r)
                    some == read_from(T.e, flag.r)
                IN  IF ~flag.r.ok THEN Failed(flag.r)
                    ELSE IF flag.val = 0 THEN [r |-> flag.r, val |-> None]
                    ELSE IF flag.val # 1 THEN Failed(fail(flag.r, "InvalidData"))
                    ELSE IF some.r.ok THEN [r |-> some.r, val |-> Some(some.val)]
                    ELSE Failed(some.r)
           [] T.t = "Txo" ->
                LET descriptor_idx == read_from(TU32, r)
                    wildcard_idx   == read_from(TU32, descriptor_idx.r)
                    outpoint       == read_from(TOutPoint, wildcard_idx.r)
                    value          == read_from(TU64, outpoint.r)
                    height         == read_from(TU64, value.r)
                    spending_txid  == read_from(TOption(TTxid), height.r)
                    spent_height   == read_from(TOption(TU64), spending_txid.r)
                IN  IF spent_height.r.ok
                    THEN [r |-> spent_height.r,
                          val |-> [NewTxo(descriptor_idx.val, wildcard_idx.val,
                                          outpoint.val, value.val, height.val)
                                   EXCEPT !.spending_txid = spending_txid.val,
                                          !.spent_height = spent_height.val]]
                    ELSE Failed(spent_height.r)
           [] T.t = "Wallet" ->
                LET h  == read_from(TU64, r)
                    ds == read_from(TVec(TDescriptor), h.r)
                    as == read_from(THashMap(TScript, TAddress), ds.r)
                    ts == read_from(THashMap(TOutPoint, TTxo), as.r)
                    kc == read_from(THashMap(TDerivationPath, TPublicKey), ts.r)
                IN  IF kc.r.ok
                    THEN [r |-> kc.r,
                          val |-> [block_height |-> h.val, descriptors |-> ds.val,
                                   addresses |-> as.val, txos |-> ts.val,
                                   key_cache |-> kc.val]]
                    ELSE Failed(kc.r)

\* ------------------------------------------------------------ ghost records
Count(m, p) == IF p \in DOMAIN m THEN m[p] ELSE 0

\* The request counters after the requests of one call.
RECURSIVE CountAll(_, _)
CountAll(m, reqs) ==
    IF reqs = <<>> THEN m
    ELSE CountAll(Insert(m, Head(reqs), Count(m, Head(reqs)) + 1), Tail(reqs))

\* The refusal counters after one call: a refused request is the last one.
CountRefused(m, st) ==
    IF st.ok THEN m
    ELSE Insert(m, st.reqs[Len(st.reqs)], Count(m, st.reqs[Len(st.reqs)]) + 1)

\* The record of a call: its name, its arguments, its error (and the outpoint
\* the error carries), the value it returned and the paths it requested from
\* the dongle.
NoCall ==
    [op |-> "new", desc |-> "", low |-> 0, high |-> 0, didx |-> 0, widx |-> None,
     outpoint |-> OutPoint(0, 0), block |-> <<>>, err |-> "none", errarg |-> None,
     val |-> 0, info |-> <<>>, reqs |-> <<>>, received |-> {}, spent |-> {}]

\* A panic ends the process: no call follows it.
Alive == ret.err # "Panic"

\* The serialization at rest, and a value (kind "value": x is a value of type
\* T) or a byte stream (kind "bytes": x is the bytes of a source read as a T)
\* handed to it: w is the writer after encoding, src the source handed to the
\* decoder and res the reader and the value it returned.
NoCodec == [op |-> "none"]
\* No audit-log wallet is open and no import is running.
NoLegacy == [op |-> "none"]
Input(kind, T, x) ==
    [op |-> "input", kind |-> kind, T |-> T, x |-> x,
     w |-> Writer(0, FALSE), src |-> <<>>, res |-> Failed(Reader(<<>>))]

\* ------------------------------------------------------------------ inputs
\* Which request of a call the dongle refuses (0: none).
Refusals == {0, 1, 2}

\* The script of a template at a wildcard index.
ScriptAt(desc, index) == script_pubkey(desc, PubKey(derive(desc, index)))
\* A script of somebody else.
ForeignScript == script_pubkey("pkh(X)", PubKey(<<"X", 0>>))

TxOut(script, value) == [script_pubkey |-> script, value |-> value]

\* Transaction 1 pays index 1 of pkh(A/*) and a foreign script and spends a
\* foreign output; transaction 2 pays index 0 of wpkh(A/*) and spends
\* output 0 of transaction 1.
Tx1 == [txid |-> 1,
        output |-> <<TxOut(ScriptAt("pkh(A/*)", 1), 5000), TxOut(ForeignScript, 7000)>>,
        input |-> <<OutPoint(9, 0)>>]
Tx2 == [txid |-> 2,
        output |-> <<TxOut(ScriptAt("wpkh(A/*)", 0), 3000)>>,
        input |-> <<OutPoint(1, 0)>>]
Blocks == {<<Tx1>>, <<Tx2>>, <<Tx1, Tx2>>, <<Tx2, Tx1>>}
Heights == {100, 101}
OutPoints == {OutPoint(1, 0), OutPoint(2, 0), OutPoint(9, 0)}

\* ------------------------------------------------------------------ actions
InitWallet ==
    /\ block_height = 0
    /\ descriptors = <<>>
    /\ addresses = EmptyMap
    /\ txos = EmptyMap
    /\ key_cache = EmptyMap
    /\ spks = None
    /\ overflow_checks \in BOOLEAN
    /\ requests = EmptyMap
    /\ refused = EmptyMap
    /\ nfail = 0
    /\ used = {}
    /\ ncalls = 0
    /\ ret = NoCall

Init == InitWallet /\ codec = NoCodec /\ legacy = NoLegacy

\* What every call does to the ghost counters, given the derivation state st
\* it ended with: `limit` is the number of calls of a behaviour.
Call(st, refuse, limit) ==
    /\ Alive
    /\ ncalls < limit
    /\ refuse # 0 => nfail < MaxFail
    /\ ncalls' = ncalls + 1
    /\ requests' = CountAll(requests, st.reqs)
    /\ refused' = CountRefused(refused, st)
    /\ nfail' = IF st.ok THEN nfail ELSE nfail + 1
    /\ key_cache' = st.kc
    /\ codec' = codec
    /\ legacy' = legacy

AddDescriptor(T, R, limit) ==
    /\ \E desc \in T, range \in R, refuse \in Refusals :
         LET r == add_descriptor(descriptors, key_cache, desc, range[1], range[2], refuse)
         IN  /\ Call(r.st, refuse, limit)
             /\ descriptors' = r.descriptors
             /\ ret' = [NoCall EXCEPT !.op = "add_descriptor", !.desc = desc,
                                      !.low = range[1], !.high = range[2],
                                      !.err = r.err, !.val = r.val, !.reqs = r.st.reqs]
    /\ UNCHANGED <<block_height, addresses, txos, spks, overflow_checks, used>>

AddAddress(W, limit) ==
    /\ \E didx \in 0..Len(descriptors), widx \in W,
          time \in Times, notes \in Notes, refuse \in {0, 1} :
         LET r == add_address(descriptors, addresses, key_cache, didx, widx,
                              time, notes, refuse, overflow_checks)
         IN  /\ Call(r.st, refuse, limit)
             /\ descriptors' = r.descriptors
             /\ addresses' = r.addresses
             /\ used' = IF r.err = "Panic" THEN used ELSE used \cup {<<didx, r.val>>}
             /\ ret' = [NoCall EXCEPT !.op = "add_address", !.didx = didx, !.widx = widx,
                                      !.err = r.err, !.val = r.val, !.reqs = r.st.reqs]
    /\ UNCHANGED <<block_height, txos, spks, overflow_checks>>

Lookup(limit) ==
    /\ \E outpoint \in OutPoints, refuse \in {0, 1} :
         LET r == txo(descriptors, addresses, txos, key_cache, outpoint, refuse)
         IN  /\ Call(r.st, refuse, limit)
             /\ ret' = [NoCall EXCEPT !.op = "txo", !.outpoint = outpoint,
                                      !.err = r.err, !.errarg = r.arg,
                                      !.info = r.info, !.reqs = r.st.reqs]
    /\ UNCHANGED <<block_height, descriptors, addresses, txos, spks, overflow_checks, used>>

BuildIndex(limit) ==
    /\ \E refuse \in Refusals :
         LET r == script_pubkey_cache(descriptors, key_cache, refuse)
         IN  /\ Call(r.st, refuse, limit)
             /\ spks' = IF r.err = "none" THEN Some(r.spks) ELSE spks
             /\ ret' = [NoCall EXCEPT !.op = "script_pubkey_cache",
                                      !.err = r.err, !.reqs = r.st.reqs]
    /\ UNCHANGED <<block_height, descriptors, addresses, txos, overflow_checks, used>>

\* A scan that also records the scanned height as the wallet's block height.
ScanBlock_sets_height(B, H, limit) ==
    /\ spks # None
    /\ \E block \in B, height \in H :
         LET r == scan_block(txos, block, height, spks[1])
         IN  /\ Call(DeriveState(key_cache), 0, limit)
             /\ txos' = r.txos
             /\ block_height' = height
             /\ ret' = [NoCall EXCEPT !.op = "scan_block", !.block = block, !.val = height,
                                      !.received = r.received, !.spent = r.spent]
    /\ UNCHANGED <<descriptors, addresses, spks, overflow_checks, used>>

ScanBlock(B, H, limit) ==
    /\ spks # None
    /\ \E block \in B, height \in H :
         LET r == scan_block(txos, block, height, spks[1])
         IN  /\ Call(DeriveState(key_cache), 0, limit)
             /\ txos' = r.txos
             /\ ret' = [NoCall EXCEPT !.op = "scan_block", !.block = block, !.val = height,
                                      !.received = r.received, !.spent = r.spent]
    /\ UNCHANGED <<block_height, descriptors, addresses, spks, overflow_checks, used>>

\* The whole wallet: every operation, on a few inputs.
Next ==
    \/ AddDescriptor(Templates, {<<0, 2>>, <<1, 2>>}, MaxCalls)
    \/ AddAddress({None}, MaxCalls)
    \/ Lookup(MaxCalls)
    \/ BuildIndex(MaxCalls)
    \/ ScanBlock({<<Tx1>>, <<Tx1, Tx2>>}, {100}, MaxCalls)

Spec == Init /\ [][Next]_vars

\* Registration: add_descriptor over every template and range, with
\* add_address in between.
NextRegister ==
    \/ AddDescriptor(Templates, Ranges, MaxRegisterCalls)
    \/ AddAddress({None, Some(0)}, MaxRegisterCalls)

SpecRegister == Init /\ [][NextRegister]_vars

\* Labelling: add_address with every wildcard argument on the descriptors of
\* one template.
NextLabel ==
    \/ AddDescriptor({"pkh(A/*)"}, {<<0, 2>>, <<1, 2>>}, MaxLabelCalls)
    \/ AddAddress(WildcardArgs, MaxLabelCalls)

SpecLabel == Init /\ [][NextLabel]_vars

\* Scanning: every block at every height on the indexes of both templates,
\* with the lookup of the outpoints.
NextScan ==
    \/ AddDescriptor(Templates, {<<0, 2>>, <<1, 2>>}, MaxScanCalls)
    \/ BuildIndex(MaxScanCalls)
    \/ ScanBlock(Blocks, Heights, MaxScanCalls)
    \/ Lookup(MaxScanCalls)

SpecScan == Init /\ [][NextScan]_vars

\* ------------------------------------------------------------ codec inputs
\* Sequences of at most n elements of S.
Seqs(S, n) == UNION {[1..k -> S] : k \in 0..n}

\* Transaction ids (32 bytes) and outpoints, after tests::basic_rtt.
Txid22 == Repeat(34, 32)
Txid33 == <<51>> \o Repeat(34, 31)
CodecOutPoints == {OutPoint(Txid22, 0), OutPoint(Txid33, 1), OutPoint(Txid22, 9999)}

\* 32-bit integers: the smallest and the largest, the powers of 256 and their
\* predecessors, the two values around the top bit, and 0x12345678.
CodecU32s ==
    {0, 1, 255, 256, 65535, 65536, 16777215, 16777216, 305419896,
     2147483647, (-2147483647) - 1, U32Max - 1, U32Max}

\* 64-bit integers: every pair of halves out of five 32-bit values.
CodecU64s ==
    {U64(lo, hi) : lo, hi \in {0, 1, 305419896, (-2147483647) - 1, U32Max}}

\* Sequences of outpoints: the short ones, one with as many elements as the
\* bound allows and one with one more.
OutPointVecs ==
    Seqs(CodecOutPoints, MaxSeqLen)
    \cup {[i \in 1..n |-> OutPoint(Txid22, i)] : n \in {MAX_VEC_ELEMS, MAX_VEC_ELEMS + 1}}

\* Sequences, sets and maps of u32 at the bound and beyond it.
U32Vecs == {<<>>, <<1, U32Max>>} \cup {Repeat(7, n) : n \in {MAX_VEC_ELEMS, MAX_VEC_ELEMS + 1}}
U32Sets == {<<>>, <<U32Max, 1>>} \cup {[i \in 1..n |-> i] : n \in {MAX_VEC_ELEMS, MAX_VEC_ELEMS + 1}}
U32Maps ==
    {<<>>, <<<<2, 6>>, <<1, 7>>>>}
    \cup {[i \in 1..n |-> <<i, i>>] : n \in {MAX_VEC_ELEMS, MAX_VEC_ELEMS + 1}}

\* Strings: empty, "note", "n" followed by a two-byte character, and strings
\* of letters at the bound and beyond it.
CodecStrings ==
    {<<>>, <<110, 111, 116, 101>>, <<110, 195, 169>>}
    \cup {Repeat(97, n) : n \in {MAX_STRING_LEN, MAX_STRING_LEN + 1}}

\* Scripts of 22 and 25 bytes (the two templates), of 50 and of 51 bytes.
ScriptOf(n) == Repeat(118, n)
CodecScripts == {ScriptOf(n) : n \in {22, 25, MAX_SCRIPTPUBKEY_SIZE, MAX_SCRIPTPUBKEY_SIZE + 1}}
ScriptVecs == {<<ScriptOf(25), ScriptOf(22)>>, <<ScriptOf(25), ScriptOf(51), ScriptOf(22)>>}

\* Policy templates: without origin, with a short origin path, and pkh with
\* the origin paths that make the canonical text 65,536 and 65,538 bytes long.
Policy(kind, origin) == [kind |-> kind, origin |-> origin]
CodecPolicies ==
    {Policy(k, n) : k \in {"pkh", "wpkh"}, n \in {0, 3}}
    \cup {Policy("pkh", 32759), Policy("pkh", 32760)}

\* Public keys (compressed and uncompressed) and derivation paths.
Key33 == Key(<<2>> \o Repeat(17, 32))
Key65 == Key(<<4>> \o Repeat(17, 64))
CodecKeys == {Key33, Key65}
CodecPaths == {<<>>, <<Hardened(44), Hardened(0), Normal(1)>>}

\* Wallets: the empty wallet; a wallet with one descriptor, one address, one
\* spent txo and one key; a wallet that holds keys only; a wallet whose
\* descriptor has a canonical text of 65,538 bytes; a wallet with a note of
\* 100,001 bytes.
CodecWallet(ds, as, ts, kc) ==
    [block_height |-> U64(700000, 0), descriptors |-> ds, addresses |-> as,
     txos |-> ts, key_cache |-> kc]
CodecDescriptor(policy) == [desc |-> policy, low |-> 0, high |-> 2, next_idx |-> 1]
CodecTxo ==
    [NewTxo(0, 1, OutPoint(Txid22, 0), U64(5000, 0), U64(100, 0))
        EXCEPT !.spending_txid = Some(Txid33), !.spent_height = Some(U64(101, 0))]
\* The wallet after add_descriptor(pkh(xpub/44h/0h/0h/2h/*h), 0, n) on the
\* empty wallet, as the import of a legacy wallet of n entries calls it: one
\* descriptor, and one cached key per index of the range.
ImportedPath(i) == <<Hardened(44), Hardened(0), Hardened(0), Hardened(2), Hardened(i)>>
ImportedKey(i) == Key(<<2>> \o U32Bytes(i) \o Repeat(17, 28))
ImportedWallet(n) ==
    [block_height |-> U64(0, 0),
     descriptors |-> <<[desc |-> Policy("pkh", 0), low |-> 0, high |-> n, next_idx |-> 0]>>,
     addresses |-> <<>>, txos |-> <<>>,
     key_cache |-> [i \in 1..n |-> <<ImportedPath(i - 1), ImportedKey(i - 1)>>]]

CodecWallets ==
    {ImportedWallet(n) : n \in {MaxSeqLen, MAX_VEC_ELEMS + 1}} \cup
    {CodecWallet(<<>>, <<>>, <<>>, <<>>),
     CodecWallet(<<CodecDescriptor(Policy("pkh", 0))>>,
                 <<<<ScriptOf(25), NewAddress(0, 1, <<50, 48, 50, 49>>, <<110, 195, 169>>)>>>>,
                 <<<<OutPoint(Txid22, 0), CodecTxo>>>>,
                 <<<<<<Hardened(44), Normal(1)>>, Key33>>>>),
     CodecWallet(<<>>, <<>>, <<>>, <<<<<<>>, Key33>>, <<<<Normal(1)>>, Key65>>>>),
     CodecWallet(<<CodecDescriptor(Policy("pkh", 32760))>>, <<>>, <<>>, <<>>),
     CodecWallet(<<>>,
                 <<<<ScriptOf(22), NewAddress(0, 0, <<>>, Repeat(97, MAX_STRING_LEN + 1))>>>>,
                 <<>>, <<>>)}

\* Sources that no encoder wrote: length prefixes beyond the bound with
\* nothing behind them, a sequence that ends early, sets and maps with
\* repeated elements and keys, text that is not UTF-8 or no policy, key bytes
\* that are no point, and bytes as a wrong key decrypts them.
OutPointVecBytes ==
    {U32Bytes(MAX_VEC_ELEMS + 1), U32Bytes(U32Max),
     U32Bytes(2) \o Txid22 \o U32Bytes(0)}
U32SetBytes ==
    {U32Bytes(MAX_VEC_ELEMS + 1), U32Bytes(3) \o U32Bytes(5) \o U32Bytes(6) \o U32Bytes(5)}
U32MapBytes ==
    {U32Bytes(MAX_VEC_ELEMS + 1),
     U32Bytes(3) \o U32Bytes(1) \o U32Bytes(5) \o U32Bytes(2) \o U32Bytes(6)
                 \o U32Bytes(1) \o U32Bytes(7)}
    \cup {U32Bytes(Len(pairs))
            \o write_elems(THashMap(TU32, TU32), pairs, 1, Len(pairs), Writer(0, FALSE)).bytes
          : pairs \in Seqs({<<1, 5>>, <<1, 7>>, <<2, 6>>}, MaxPairs)}
StringBytes == {U32Bytes(MAX_STRING_LEN + 1), U32Bytes(U32Max), U32Bytes(1) \o <<255>>}
ScriptBytes == {U32Bytes(MAX_SCRIPTPUBKEY_SIZE + 1) \o ScriptOf(51), U32Bytes(U32Max)}
PolicyBytes ==
    {U32Bytes(MAX_DESCRIPTOR_LEN + 1), U32Bytes(4) \o <<112, 107, 120, 40>>,
     U32Bytes(1) \o <<255>>}
KeyBytes == {<<5>> \o Repeat(17, 64), <<0>> \o Repeat(17, 32), <<2>> \o Repeat(17, 8)}
\* Wallet files that were not written by this wallet: bytes as a wrong key
\* decrypts them, zeros, and well-formed files whose only Txo or Address
\* names descriptor 7 of none or descriptor 2^32 - 1 of one.
StrayTxoWallet ==
    CodecWallet(<<>>, <<>>,
                <<<<OutPoint(Txid22, 0), [CodecTxo EXCEPT !.descriptor_idx = 7]>>>>, <<>>)
StrayAddressWallet ==
    CodecWallet(<<CodecDescriptor(Policy("wpkh", 0))>>,
                <<<<ScriptOf(22), NewAddress(U32Max, 0, <<>>, <<110>>)>>>>, <<>>, <<>>)
WalletBytes ==
    {Repeat(255, 40), Repeat(0, 28)}
    \cup {write_to(TWallet, x, Writer(0, FALSE)).bytes : x \in {StrayTxoWallet, StrayAddressWallet}}

\* The inputs by type: within a family all values have one type.
CodecFamilies ==
    <<{Input("value", TU32, x) : x \in CodecU32s},
      {Input("value", TU64, x) : x \in CodecU64s},
      {Input("value", TScript, x) : x \in CodecScripts},
      {Input("value", TVec(TScript), x) : x \in ScriptVecs},
      {Input("value", TVec(TOutPoint), x) : x \in OutPointVecs},
      {Input("value", TVec(TU32), x) : x \in U32Vecs},
      {Input("value", THashSet(TU32), x) : x \in U32Sets},
      {Input("value", THashMap(TU32, TU32), x) : x \in U32Maps},
      {Input("value", TString, x) : x \in CodecStrings},
      {Input("value", TMiniscript, x) : x \in CodecPolicies},
      {Input("value", TPublicKey, x) : x \in CodecKeys},
      {Input("value", TDerivationPath, x) : x \in CodecPaths},
      {Input("value", TWallet, x) : x \in CodecWallets},
      {Input("bytes", TVec(TOutPoint), x) : x \in OutPointVecBytes},
      {Input("bytes", THashSet(TU32), x) : x \in U32SetBytes},
      {Input("bytes", THashMap(TU32, TU32), x) : x \in U32MapBytes},
      {Input("bytes", TString, x) : x \in StringBytes},
      {Input("bytes", TScript, x) : x \in ScriptBytes},
      {Input("bytes", TMiniscript, x) : x \in PolicyBytes},
      {Input("bytes", TPublicKey, x) : x \in KeyBytes},
      {Input("bytes", TWallet, x) : x \in WalletBytes}>>

\* Where the source handed to the decoder ends: after all n bytes that were
\* written, before the last of them, or after the first few.
Cuts(n) == {n} \cup {c \in 0..MaxCut : c < n} \cup {c \in {n - 1} : c >= 0}

\* ------------------------------------------------------------ codec actions
\* The serialization starts with one of the inputs.
InitCodec ==
    /\ InitWallet
    /\ legacy = NoLegacy
    /\ \E f \in 1..Len(CodecFamilies) : codec \in CodecFamilies[f]

\* What the serialization leaves alone: the wallet and its ghosts.
CodecFrame ==
    UNCHANGED <<block_height, descriptors, addresses, txos, key_cache, spks,
                overflow_checks, requests, refused, nfail, used, ncalls, ret, legacy>>

\* x.write_to(&mut sink) on a sink that takes every byte.
Encode ==
    /\ codec.op = "input" /\ codec.kind = "value"
    /\ codec' = [codec EXCEPT !.op = "encoded",
                              !.w = write_to(codec.T, codec.x, Writer(0, overflow_checks))]
    /\ CodecFrame

\* T::read_from on the bytes that were written, or on a part of them.
Decode ==
    /\ codec.op = "encoded" /\ codec.w.ok
    /\ \E cut \in Cuts(Len(codec.w.bytes)) :
         LET src == SubSeq(codec.w.bytes, 1, cut)
         IN  codec' = [codec EXCEPT !.op = "decoded", !.src = src,
                                    !.res = read_from(codec.T, Reader(src))]
    /\ CodecFrame

\* T::read_from on a source that no encoder wrote.
DecodeBytes ==
    /\ codec.op = "input" /\ codec.kind = "bytes"
    /\ codec' = [codec EXCEPT !.op = "decoded", !.src = codec.x,
                              !.res = read_from(codec.T, Reader(codec.x))]
    /\ CodecFrame

\* Wallet::write on a sink whose call number failat fails (0: none).
Write ==
    /\ codec.op = "input" /\ codec.kind = "value" /\ codec.T.t = "Wallet"
    /\ \E failat \in 0..MaxFailAt :
         codec' = [codec EXCEPT !.op = "written",
                                !.w = Wallet_write(codec.x, failat, overflow_checks)]
    /\ CodecFrame

NextCodec == Encode \/ Decode \/ DecodeBytes \/ Write

SpecCodec == InitCodec /\ [][NextCodec]_vars

\* ------------------------------------------------------------------ claims
\* A step in which the named operation was called.
Called(op) == ncalls' = ncalls + 1 /\ ret'.op = op

\* The number of requests for path p the dongle answered.
Answered(p) == Count(requests, p) - Count(refused, p)

\* C1 as stated: over any sequence of calls, no derivation path is requested
\* from the hardware authority more than once.
C1_AtMostOneRequest ==
    \A p \in DOMAIN requests : requests[p] <= 1

\* C1 as amended: a cached path is never requested; a path that is not cached
\* is requested at most once per call; a path is in the key cache, with the
\* key the authority derived for it, exactly when one request for it was
\* answered, and no path has more than one answered request.  A path is
\* requested again only after the authority refused every earlier request.
C1_OneAnsweredRequest ==
    [][ /\ \A p \in DOMAIN requests' :
             /\ p \in DOMAIN key_cache => Count(requests', p) = Count(requests, p)
             /\ Count(requests', p) <= Count(requests, p) + 1
        /\ \A p \in (DOMAIN requests') \cup (DOMAIN key_cache') :
             /\ Answered(p)' = (IF p \in DOMAIN key_cache' THEN 1 ELSE 0)
             /\ p \in DOMAIN key_cache' => key_cache'[p] = PubKey(p)
      ]_vars

\* C1 witness: a path was refused once, requested again and answered, and a
\* later lookup of a txo succeeded without any request.
C1_Witness ==
    /\ ret.op = "txo" /\ ret.err = "none" /\ ret.reqs = <<>>
    /\ \E p \in DOMAIN key_cache : Count(requests, p) = 2 /\ Count(refused, p) = 1

\* A registered descriptor with the template, low and high of the call in ret'.
AlreadyRegistered ==
    \E k \in 1..Len(descriptors) :
        /\ descriptors[k].desc = ret'.desc
        /\ descriptors[k].low = ret'.low
        /\ descriptors[k].high = ret'.high

\* C2: add_descriptor with a template, low and high that are already
\* registered returns DuplicateDescriptor and changes nothing: the descriptor
\* list, addresses, txos, block_height and key cache stay, no request is made.
C2_DuplicateRejected ==
    [][ (Called("add_descriptor") /\ AlreadyRegistered)
        => /\ ret'.err = "DuplicateDescriptor"
           /\ UNCHANGED wallet
           /\ requests' = requests
           /\ ret'.reqs = <<>>
      ]_vars

\* C2 witness: a duplicate registration was rejected on a wallet that holds
\* descriptors and keys.
C2_Witness ==
    /\ ret.op = "add_descriptor" /\ ret.err = "DuplicateDescriptor"
    /\ Len(descriptors) >= 1 /\ DOMAIN key_cache # {}

\* C3: no two entries of the descriptor list have the same template, low and
\* high.
C3_NoDuplicateTriple ==
    \A i, j \in 1..Len(descriptors) :
        i # j => \/ descriptors[i].desc # descriptors[j].desc
                 \/ descriptors[i].low # descriptors[j].low
                 \/ descriptors[i].high # descriptors[j].high

\* C3 witness: two descriptors with the same template and the same low are
\* registered, and a duplicate of one of them was tried and rejected.
C3_Witness ==
    /\ Len(descriptors) = 2
    /\ descriptors[1].desc = descriptors[2].desc
    /\ descriptors[1].low = descriptors[2].low
    /\ ret.op = "add_descriptor" /\ ret.err = "DuplicateDescriptor"

\* The indices of [low, high) of the call in ret' that no registered
\* descriptor with the same template covers.
Uncovered ==
    {i \in ret'.low .. (ret'.high - 1) :
        ~ \E k \in 1..Len(descriptors) :
              /\ descriptors[k].desc = ret'.desc
              /\ descriptors[k].low <= i /\ i < descriptors[k].high}

\* C4: a successful add_descriptor returns the number of indices of
\* [low, high) that lie in no range of a registered descriptor with the same
\* template.
C4_ReturnsUncovered ==
    [][ (Called("add_descriptor") /\ ret'.err = "none")
        => ret'.val = Cardinality(Uncovered)
      ]_vars

\* C4 witness: P was registered over [0,5), then over [5,10), and the
\* registration of P over [0,10) succeeded and returned 0.
C4_Witness ==
    /\ Len(descriptors) = 3
    /\ \A k \in 1..3 : descriptors[k].desc = "pkh(A/*)"
    /\ descriptors[1].low = 0 /\ descriptors[1].high = 5
    /\ descriptors[2].low = 5 /\ descriptors[2].high = 10
    /\ descriptors[3].low = 0 /\ descriptors[3].high = 10
    /\ ret.op = "add_descriptor" /\ ret.err = "none" /\ ret.val = 0
    /\ Cardinality(DOMAIN key_cache) = 10

Labelled ==
    /\ Called("add_address")
    /\ ret'.didx < Len(descriptors)
    /\ ret'.err # "Panic"

\* next_idx of the descriptor the call in ret' names, before and after.
NextIdxBefore == descriptors[ret'.didx + 1].next_idx
NextIdxAfter == descriptors'[ret'.didx + 1].next_idx

\* b = a + 1 as unsigned 32-bit numbers, without wrapping.
USucc(a, b) == a # U32Max /\ b = a + 1

\* C6 as stated: add_address without an explicit index uses the descriptor's
\* next_idx n as wildcard index and leaves next_idx = n + 1, so two successive
\* calls yield n and n + 1.
C6_AutoAllocation ==
    [][ (Labelled /\ ret'.widx = None)
        => /\ ret'.val = NextIdxBefore
           /\ USucc(NextIdxBefore, NextIdxAfter)
      ]_vars

\* C7 as stated: after add_address with the explicit index w on a descriptor
\* whose next_idx was n, next_idx = max(n, w + 1) (stated for the w below
\* 2^32 - 1, where w + 1 is a u32).
C7_ExplicitAdvance ==
    [][ (Labelled /\ ret'.widx # None /\ ret'.widx[1] # U32Max)
        => NextIdxAfter = Max(NextIdxBefore, ret'.widx[1] + 1)
      ]_vars

\* C8 as stated: an auto-allocated wildcard index is never one that an earlier
\* add_address call on the same descriptor used.
C8_AutoNeverReuses ==
    [][ (Labelled /\ ret'.widx = None) => <<ret'.didx, ret'.val>> \notin used ]_vars

\* C9 as stated: next_idx of a descriptor never decreases.
C9_NextIdxMonotone ==
    [][ \A k \in 1..Len(descriptors) :
            ULe(descriptors[k].next_idx, descriptors'[k].next_idx) ]_vars

\* C10 as stated: every Address of the address map has a wildcard index
\* within [low, high) of the descriptor it names.
C10_AddressInRange ==
    \A spk \in DOMAIN addresses :
        LET a == addresses[spk]
            d == descriptors[a.descriptor_idx + 1]
        IN  ULe(d.low, a.wildcard_idx) /\ ULt(a.wildcard_idx, d.high)

\* --------------------------------------------------------- scanning claims
\* The outputs of a block whose script is a key of the index: pairs of the
\* transaction's position in the block and the output number.
Paid(block, index) ==
    UNION {{<<j, vout>> : vout \in {v \in 0..(Len(block[j].output) - 1) :
                                       block[j].output[v + 1].script_pubkey \in DOMAIN index}}
           : j \in 1..Len(block)}

\* The outpoint of such a pair.
PaidOutPoint(block, p) == OutPoint(block[p[1]].txid, p[2])

\* The previous-outpoints of the inputs of a transaction.
Inputs(tx) == {tx.input[k] : k \in 1..Len(tx.input)}

\* The positions of the transactions of the block that find outpoint o
\* tracked when their inputs are processed: o is an input of the transaction,
\* and o was in the Txo map before the call or is paid by that transaction
\* or an earlier one of the block.
Spenders(block, index, o) ==
    {j \in 1..Len(block) :
        /\ o \in Inputs(block[j])
        /\ \/ o \in DOMAIN txos
           \/ \E p \in Paid(block, index) : p[1] <= j /\ PaidOutPoint(block, p) = o}

\* The largest element of a non-empty set of positions.
Last(S) == CHOOSE j \in S : \A i \in S : i <= j

\* C11: scan_block returns as `received` exactly the outpoints of the block's
\* outputs whose script is a key of the index; each of them is in the Txo map
\* afterwards with the descriptor and wildcard index the index gives for the
\* script, the output's value and the scanned height, and with no spend
\* recorded unless an input of the same or a later transaction of the block
\* names it; no other outpoint enters the Txo map.
C11_ReceivedTracked ==
    [][ Called("scan_block")
        => LET block == ret'.block
               paid  == Paid(block, spks[1])
           IN  /\ ret'.received = {PaidOutPoint(block, p) : p \in paid}
               /\ DOMAIN txos' = (DOMAIN txos) \cup ret'.received
               /\ \A p \in paid :
                    LET o   == PaidOutPoint(block, p)
                        out == block[p[1]].output[p[2] + 1]
                        t   == txos'[o]
                    IN  /\ t.descriptor_idx = spks[1][out.script_pubkey][1]
                        /\ t.wildcard_idx = spks[1][out.script_pubkey][2]
                        /\ t.outpoint = o
                        /\ t.value = out.value
                        /\ t.height = ret'.val
                        /\ (\A j \in p[1]..Len(block) : o \notin Inputs(block[j]))
                           => t.spending_txid = None /\ t.spent_height = None
      ]_vars

\* C11 witness: a block with an output to index 1 of a registered template
\* (value 5000) and a foreign output was scanned at height 100: the first is
\* tracked unspent, the second is not tracked.
C11_Witness ==
    /\ ret.op = "scan_block" /\ ret.val = 100
    /\ ret.received = {OutPoint(1, 0)}
    /\ OutPoint(1, 0) \in DOMAIN txos
    /\ txos[OutPoint(1, 0)].value = 5000
    /\ txos[OutPoint(1, 0)].height = 100
    /\ txos[OutPoint(1, 0)].wildcard_idx = 1
    /\ txos[OutPoint(1, 0)].spending_txid = None
    /\ OutPoint(1, 1) \notin DOMAIN txos

\* C12: scan_block returns as `spent` exactly the previous-outpoints of the
\* block's inputs that are tracked when their transaction's inputs are
\* processed; each is marked with the id of the (last) transaction spending it
\* and the scanned height, its other fields kept, unless a later transaction
\* of the block pays the outpoint again; a Txo that is neither received nor
\* spent by the block is unchanged.
C12_SpentMarked ==
    [][ Called("scan_block")
        => LET block == ret'.block
               paid  == Paid(block, spks[1])
               spent == {o \in UNION {Inputs(block[j]) : j \in 1..Len(block)} :
                            Spenders(block, spks[1], o) # {}}
           IN  /\ ret'.spent = spent
               /\ \A o \in spent :
                    LET j == Last(Spenders(block, spks[1], o))
                    IN  (\A p \in paid : PaidOutPoint(block, p) = o => p[1] <= j)
                        => /\ txos'[o].spending_txid = Some(block[j].txid)
                           /\ txos'[o].spent_height = Some(ret'.val)
                           /\ o \notin ret'.received
                              => txos'[o] = set_spent(txos[o], block[j].txid, ret'.val)
               /\ \A o \in DOMAIN txos :
                    o \notin ret'.received \cup ret'.spent => txos'[o] = txos[o]
      ]_vars

\* C12 witness: an output received at height 100 was spent by transaction 2
\* in a block scanned at height 101.
C12_Witness ==
    /\ ret.op = "scan_block" /\ ret.val = 101
    /\ ret.spent = {OutPoint(1, 0)}
    /\ OutPoint(1, 0) \notin ret.received
    /\ txos[OutPoint(1, 0)].height = 100
    /\ txos[OutPoint(1, 0)].spending_txid = Some(2)
    /\ txos[OutPoint(1, 0)].spent_height = Some(101)

\* C13: the lookup of an outpoint that is not a key of the Txo map returns
\* TxoNotFound carrying that outpoint, sends no request to the authority and
\* changes nothing in the wallet, the key cache included.
C13_UntrackedLookup ==
    [][ (Called("txo") /\ ret'.outpoint \notin DOMAIN txos)
        => /\ ret'.err = "TxoNotFound"
           /\ ret'.errarg = Some(ret'.outpoint)
           /\ ret'.reqs = <<>>
           /\ requests' = requests
           /\ UNCHANGED wallet
      ]_vars

\* C13 witness: an untracked outpoint was looked up in a wallet that tracks
\* another outpoint and holds descriptors and keys.
C13_Witness ==
    /\ ret.op = "txo" /\ ret.err = "TxoNotFound"
    /\ ret.outpoint \notin DOMAIN txos
    /\ DOMAIN txos # {} /\ descriptors # <<>> /\ DOMAIN key_cache # {}

\* ---------------------------------------------------- serialization claims
\* The bytes of x encoded as a T on a sink that takes every byte.
Enc(T, x) == write_to(T, x, Writer(0, FALSE)).bytes

\* The entries of a map, whatever their order.
Entries(m) == {m[i] : i \in 1..Len(m)}

\* The decoder was handed all the bytes the encoder wrote for the value.
DecodedWhole(tag) ==
    /\ codec.op = "decoded" /\ codec.kind = "value" /\ codec.T.t = tag
    /\ codec.src = codec.w.bytes

\* C14: for every wallet value, the bytes written by encoding it are the
\* encodings of block_height, descriptors, addresses, txos and key_cache in
\* that order, and decoding these bytes succeeds and yields an equal wallet.
C14_WalletRoundTrip ==
    /\ (codec.op = "encoded" /\ codec.T.t = "Wallet" /\ codec.w.ok)
         => codec.w.bytes = Enc(TU64, codec.x.block_height)
                            \o Enc(TVec(TDescriptor), codec.x.descriptors)
                            \o Enc(THashMap(TScript, TAddress), codec.x.addresses)
                            \o Enc(THashMap(TOutPoint, TTxo), codec.x.txos)
                            \o Enc(THashMap(TDerivationPath, TPublicKey), codec.x.key_cache)
    /\ DecodedWhole("Wallet")
         => /\ codec.res.r.ok
            /\ codec.res.val.block_height = codec.x.block_height
            /\ codec.res.val.descriptors = codec.x.descriptors
            /\ Entries(codec.res.val.addresses) = Entries(codec.x.addresses)
            /\ Entries(codec.res.val.txos) = Entries(codec.x.txos)
            /\ Entries(codec.res.val.key_cache) = Entries(codec.x.key_cache)

\* C15: a sequence of at most 10,000 outpoints is encoded, and decoding the
\* encoding consumes all of it and yields the same sequence: same length,
\* same outpoints in the same order.
C15_OutPointsRoundTrip ==
    (codec.op # "none" /\ codec.T.t = "Vec" /\ codec.T.e.t = "OutPoint"
     /\ codec.kind = "value" /\ Len(codec.x) <= MAX_VEC_ELEMS)
      => /\ codec.op = "encoded" => codec.w.ok
         /\ DecodedWhole("Vec")
              => /\ codec.res.r.ok
                 /\ codec.res.r.pos = Len(codec.src)
                 /\ codec.res.val = codec.x

\* C15 witness: a sequence of two different outpoints, one of them with vout
\* 9999, came back from the decoder.
C15_Witness ==
    /\ DecodedWhole("Vec") /\ codec.T.e.t = "OutPoint"
    /\ codec.x = <<OutPoint(Txid33, 1), OutPoint(Txid22, 9999)>>
    /\ codec.res.r.ok
    /\ codec.res.val[2].vout = 9999

\* The types with a checked length and their bounds.
HasBound(T) == T.t \in {"Vec", "HashSet", "HashMap", "String", "Script"}
BoundOf(T) ==
    CASE T.t \in {"Vec", "HashSet", "HashMap"} -> MAX_VEC_ELEMS
      [] T.t = "String" -> MAX_STRING_LEN
      [] T.t = "Script" -> MAX_SCRIPTPUBKEY_SIZE

\* The first script of a sequence that is longer than the bound, 0 if none.
FirstLong(x) ==
    LET long == {i \in 1..Len(x) : Len(x[i]) > MAX_SCRIPTPUBKEY_SIZE}
    IN  IF long = {} THEN 0 ELSE CHOOSE i \in long : \A j \in long : i <= j

\* C16: encoding a sequence, set or map of more than 10,000 elements, a
\* string of more than 100,000 bytes or a script of more than 50 bytes fails
\* with an error and writes no byte of that value, also where the value is an
\* element of a sequence (the bytes written are those of what precedes it); a
\* value exactly at the bound is encoded.
C16_OverBoundWritesNothing ==
    (codec.op = "encoded" /\ HasBound(codec.T))
      => /\ Len(codec.x) > BoundOf(codec.T)
              => /\ ~codec.w.ok /\ codec.w.err = "InvalidData"
                 /\ codec.w.bytes = <<>> /\ codec.w.calls = 0
         /\ Len(codec.x) = BoundOf(codec.T)
              => /\ codec.w.ok
                 /\ SubSeq(codec.w.bytes, 1, 4) = U32Bytes(BoundOf(codec.T))
         /\ (codec.T.t = "Vec" /\ codec.T.e.t = "Script" /\ FirstLong(codec.x) > 0)
              => /\ ~codec.w.ok /\ codec.w.err = "InvalidData"
                 /\ codec.w.bytes =
                      U32Bytes(Len(codec.x))
                      \o write_elems(codec.T, codec.x, 1, FirstLong(codec.x) - 1,
                                     Writer(0, FALSE)).bytes

\* C16 witness: a script of 51 bytes was refused by the encoder.
C16_Witness ==
    /\ codec.op = "encoded" /\ codec.T.t = "Script"
    /\ Len(codec.x) = MAX_SCRIPTPUBKEY_SIZE + 1
    /\ ~codec.w.ok

\* The largest length an allocation request of the decoder may have.
MaxRequest(what) ==
    CASE what \in {"Vec", "HashSet", "HashMap"} -> MAX_VEC_ELEMS
      [] what = "String" -> MAX_STRING_LEN
      [] what = "Script" -> MAX_SCRIPTPUBKEY_SIZE
      [] what = "miniscript::Descriptor" -> MAX_DESCRIPTOR_LEN

\* C17: for every input byte string, no allocation request made while
\* decoding is sized by a length prefix that exceeds the type's maximum: the
\* decoder fails before it allocates.
C17_CheckBeforeAllocate ==
    codec.op = "decoded"
      => \A i \in 1..Len(codec.res.r.allocs) :
            ULe(codec.res.r.allocs[i].n, MaxRequest(codec.res.r.allocs[i].what))

\* C18: every failure of encode or decode is reported as invalid data, and a
\* failed decode returns no value.
C18_OneErrorCategory ==
    /\ (codec.op = "encoded" /\ ~codec.w.ok) => codec.w.err = "InvalidData"
    /\ (codec.op = "decoded" /\ ~codec.res.r.ok)
         => codec.res.r.err = "InvalidData" /\ codec.res.val = <<>>

\* The steps of the encrypted writer that Wallet::write took.
StepsOf(w, step) == {i \in 1..Len(w.steps) : w.steps[i].step = step}

\* A call of the sink failed, or the encoding refused the wallet, before
\* finalize.
FailedBeforeFinalize(w) ==
    \/ w.err = "InvalidData"
    \/ /\ w.failat >= 1 /\ w.calls >= w.failat
       /\ \A i \in StepsOf(w, "finalize") : w.steps[i].ok

\* C19: in Wallet::write, init completes before the first payload byte is
\* written, finalize runs only after the last payload byte is written, and
\* if init or a payload write fails, finalize is never called and the error
\* is returned.
C19_InitPayloadFinalize ==
    codec.op = "written"
      => /\ Len(codec.w.steps) >= 1
         /\ codec.w.steps[1].step = "init" /\ codec.w.steps[1].at = 0
         /\ \A i \in StepsOf(codec.w, "finalize") :
               /\ i = Len(codec.w.steps)
               /\ codec.w.steps[i].at = Len(codec.w.bytes)
               /\ codec.w.bytes = Enc(TWallet, codec.x)
         /\ FailedBeforeFinalize(codec.w)
              => /\ StepsOf(codec.w, "finalize") = {}
                 /\ ~codec.w.ok /\ ~codec.w.panic

\* C25: encoding a policy template whose canonical text is longer than
\* 65,536 bytes fails with the bound error, as decoding such a length does,
\* so every template the encoder accepts is accepted back by the decoder.
C25_DescriptorEncodeBound ==
    /\ (codec.op = "encoded" /\ codec.T.t = "miniscript::Descriptor"
        /\ Len(to_string(codec.x)) > MAX_DESCRIPTOR_LEN)
         => ~codec.w.ok /\ codec.w.err = "InvalidData"
    /\ DecodedWhole("miniscript::Descriptor")
         => codec.res.r.ok /\ codec.res.val = codec.x

\* The key/value pairs of a stream holding a map of u32 to u32: the pair
\* number i follows the length prefix and the i - 1 pairs before it.
StreamPairs(src) ==
    [i \in 1..U32Of(SubSeq(src, 1, 4)) |->
        <<U32Of(SubSeq(src, 8 * i - 3, 8 * i)), U32Of(SubSeq(src, 8 * i + 1, 8 * i + 4))>>]

\* The source holds a length prefix n <= 10,000 and n pairs of u32.
HoldsPairs(src) ==
    /\ Len(src) >= 4
    /\ U32Of(SubSeq(src, 1, 4)) >= 0
    /\ U32Of(SubSeq(src, 1, 4)) <= MAX_VEC_ELEMS
    /\ Len(src) = 4 + 8 * U32Of(SubSeq(src, 1, 4))

\* C26: decoding a map whose stream holds n <= 10,000 pairs succeeds also
\* where a key occurs more than once; the decoded map has one entry for each
\* key of the stream, with the value of the key's last occurrence, so fewer
\* than n entries when a key is repeated.
C26_LastDuplicateWins ==
    (codec.op = "decoded" /\ codec.kind = "bytes" /\ codec.T.t = "HashMap"
     /\ HoldsPairs(codec.src))
      => LET pairs == StreamPairs(codec.src)
             keys  == {pairs[i][1] : i \in 1..Len(pairs)}
             map   == codec.res.val
         IN  /\ codec.res.r.ok
             /\ {map[i][1] : i \in 1..Len(map)} = keys
             /\ Len(map) = Cardinality(keys)
             /\ \A i \in 1..Len(map) :
                  map[i][2] = pairs[Last({j \in 1..Len(pairs) : pairs[j][1] = map[i][1]})][2]

\* C26 witness: a stream of four pairs with the keys 1, 2, 1, 1 and the
\* values 5, 6, 7, 5 was decoded to the two entries 1 -> 5 and 2 -> 6.
C26_Witness ==
    /\ codec.op = "decoded" /\ codec.kind = "bytes" /\ codec.T.t = "HashMap"
    /\ HoldsPairs(codec.src)
    /\ StreamPairs(codec.src) = <<<<1, 5>>, <<2, 6>>, <<1, 7>>, <<1, 5>>>>
    /\ codec.res.r.ok
    /\ Entries(codec.res.val) = {<<1, 5>>, <<2, 6>>}

\* ------------------------------------------------------- descriptor list
\* C20: the descriptor list only grows by appending: an existing descriptor
\* keeps its position, template, low and high, only its next_idx may change,
\* and an appended descriptor has next_idx = 0.
C20_AppendOnly ==
    [][ /\ Len(descriptors') >= Len(descriptors)
        /\ \A k \in 1..Len(descriptors) :
             /\ descriptors'[k].desc = descriptors[k].desc
             /\ descriptors'[k].low = descriptors[k].low
             /\ descriptors'[k].high = descriptors[k].high
        /\ \A k \in (Len(descriptors) + 1)..Len(descriptors') :
             descriptors'[k].next_idx = 0
      ]_vars

\* C20 witness: a descriptor with low = 1 was appended after the next_idx of
\* the first descriptor had advanced.
C20_Witness ==
    /\ ret.op = "add_descriptor" /\ ret.err = "none" /\ ret.low = 1
    /\ Len(descriptors) = 2
    /\ descriptors[1].next_idx # 0
    /\ descriptors[2].low = 1 /\ descriptors[2].next_idx = 0

\* ------------------------------------------------------- txo map claims
\* C21: the set of outpoints tracked in the Txo map never loses an element,
\* and the Txo map changes in scan_block steps only: add_descriptor,
\* add_address, the lookup and the building of the index leave it unchanged.
C21_TxosOnlyGrowByScan ==
    [][ /\ (DOMAIN txos) \subseteq (DOMAIN txos')
        /\ txos' # txos => Called("scan_block")
      ]_vars

\* C21 witness: an address was labelled in a wallet that tracks a spent
\* output, which is still tracked.
C21_Witness ==
    /\ ret.op = "add_address" /\ ret.err = "none"
    /\ OutPoint(1, 0) \in DOMAIN txos
    /\ txos[OutPoint(1, 0)].spending_txid = Some(2)

\* C22: if transaction A precedes transaction B in the scanned block, A has
\* an output whose script is in the index and B has an input spending that
\* output, the scan returns the outpoint in both `received` and `spent` and
\* leaves the Txo received at the scanned height and spent by B at the
\* scanned height; if every transaction spending such an output precedes A
\* and the outpoint was not tracked before, it is received and not spent.
C22_SameBlockSpend ==
    [][ Called("scan_block")
        => LET block == ret'.block
           IN  \A p \in Paid(block, spks[1]) :
                 LET o == PaidOutPoint(block, p)
                 IN  /\ \A j \in 1..Len(block) :
                          (p[1] < j /\ o \in Inputs(block[j]))
                            => /\ o \in ret'.received /\ o \in ret'.spent
                               /\ txos'[o].height = ret'.val
                               /\ txos'[o].spending_txid = Some(block[j].txid)
                               /\ txos'[o].spent_height = Some(ret'.val)
                     /\ (/\ o \notin DOMAIN txos
                         /\ \A j \in 1..Len(block) : o \in Inputs(block[j]) => j < p[1])
                          => /\ o \in ret'.received /\ o \notin ret'.spent
                             /\ txos'[o].spending_txid = None
      ]_vars

\* C22 witness: one scan of the block <<transaction 1, transaction 2>> at
\* height 101 returned output 0 of transaction 1 as received and as spent,
\* and its Txo is spent by transaction 2 at height 101.
C22_Witness ==
    /\ ret.op = "scan_block" /\ ret.val = 101 /\ ret.block = <<Tx1, Tx2>>
    /\ OutPoint(1, 0) \in ret.received /\ OutPoint(1, 0) \in ret.spent
    /\ txos[OutPoint(1, 0)].height = 101
    /\ txos[OutPoint(1, 0)].spending_txid = Some(2)
    /\ txos[OutPoint(1, 0)].spent_height = Some(101)

\* ------------------------------------------------------------ index claims
\* The slots of a descriptor list: descriptor index (from 0) and wildcard
\* index w with low <= w < high.
Slots(ds) ==
    UNION {{<<k - 1, w>> : w \in ds[k].low .. (ds[k].high - 1)} : k \in 1..Len(ds)}

\* The script of a slot: the descriptor's template instantiated at the index.
Instantiate(ds, slot) == ScriptAt(ds[slot[1] + 1].desc, slot[2])

\* C23: the index script_pubkey_cache returns has as keys exactly the scripts
\* of the slots of the registered descriptors, and every entry maps its
\* script to a slot whose script it is.
C23_IndexIsExact ==
    [][ (Called("script_pubkey_cache") /\ ret'.err = "none")
        => /\ spks' # None
           /\ DOMAIN spks'[1] = {Instantiate(descriptors, s) : s \in Slots(descriptors)}
           /\ \A script \in DOMAIN spks'[1] :
                /\ spks'[1][script] \in Slots(descriptors)
                /\ Instantiate(descriptors, spks'[1][script]) = script
      ]_vars

\* C23 witness: the index of a wallet with descriptors of both templates, two
\* of them sharing index 1 of one template, was built: it has three scripts.
C23_Witness ==
    /\ ret.op = "script_pubkey_cache" /\ ret.err = "none"
    /\ Len(descriptors) = 3
    /\ \E i, j \in 1..3 : i # j /\ descriptors[i].desc = descriptors[j].desc
    /\ \E i, j \in 1..3 : descriptors[i].desc # descriptors[j].desc
    /\ spks # None /\ Cardinality(DOMAIN spks[1]) >= 3

\* C24: every Txo of the Txo map names a descriptor index smaller than the
\* number of registered descriptors and a wildcard index within that
\* descriptor's [low, high).
C24_TxoInRange ==
    \A o \in DOMAIN txos :
        /\ txos[o].descriptor_idx >= 0
        /\ txos[o].descriptor_idx < Len(descriptors)
        /\ ULe(descriptors[txos[o].descriptor_idx + 1].low, txos[o].wildcard_idx)
        /\ ULt(txos[o].wildcard_idx, descriptors[txos[o].descriptor_idx + 1].high)

\* C24 witness: a block was scanned with an index built before the last
\* descriptor was registered, and a Txo names the last descriptor the index
\* knew.
C24_Witness ==
    /\ ret.op = "scan_block"
    /\ Len(descriptors) = 3
    /\ OutPoint(1, 0) \in DOMAIN txos
    /\ txos[OutPoint(1, 0)].descriptor_idx = 1
    /\ txos[OutPoint(1, 0)].wildcard_idx = 1

\* ------------------------------------------------- authority failure claims
\* C27: when the authority refuses a request of add_descriptor, the call
\* returns the error after that request: every path was requested once, in
\* the order of the indices of [low, high), the refused one last; no
\* descriptor is appended; the keys of the requests answered before are in
\* the key cache, the refused path is not, and nothing else in the key cache
\* changes.
C27_FailedRegistration ==
    [][ (Called("add_descriptor") /\ ret'.err = "Dongle")
        => LET reqs == ret'.reqs
               n    == Len(reqs)
           IN  /\ n >= 1
               /\ nfail' = nfail + 1
               /\ Count(refused', reqs[n]) = Count(refused, reqs[n]) + 1
               /\ \A i \in 1..n :
                    /\ reqs[i][1] = KeyOrigin(ret'.desc)
                    /\ ret'.low <= reqs[i][2] /\ reqs[i][2] < ret'.high
                    /\ \A j \in 1..n : i < j => reqs[i][2] < reqs[j][2]
               /\ ret'.val = 0
               /\ descriptors' = descriptors
               /\ UNCHANGED <<block_height, addresses, txos>>
               /\ DOMAIN key_cache' = (DOMAIN key_cache) \cup {reqs[i] : i \in 1..(n - 1)}
               /\ \A p \in DOMAIN key_cache : key_cache'[p] = key_cache[p]
               /\ \A i \in 1..(n - 1) : key_cache'[reqs[i]] = PubKey(reqs[i])
      ]_vars

\* C27 witness: the first add_descriptor of a wallet was refused at its
\* second request: the key of the first request is cached and the descriptor
\* list is empty.
C27_Witness ==
    /\ ret.op = "add_descriptor" /\ ret.err = "Dongle"
    /\ Len(ret.reqs) = 2
    /\ descriptors = <<>>
    /\ DOMAIN key_cache = {ret.reqs[1]}

\* C28: when the key derivation fails inside add_address, the call returns
\* the error and inserts no Address, and the descriptor's next_idx is already
\* advanced past the index of the call; so a failed auto-allocated call that
\* used index n, followed by a successful auto-allocated call on the same
\* descriptor, yields n + 1.
C28_FailedLabelAdvances ==
    [][ /\ (Labelled /\ ret'.err = "Dongle")
             => /\ addresses' = addresses
                /\ USucc(Max(NextIdxBefore, ret'.val), NextIdxAfter)
        /\ (/\ ret.op = "add_address" /\ ret.err = "Dongle" /\ ret.widx = None
            /\ Labelled /\ ret'.didx = ret.didx /\ ret'.widx = None /\ ret'.err = "none")
             => USucc(ret.val, ret'.val)
      ]_vars

\* ---------------------------------------------------------- key cache claims
\* C29: the lookup and the building of the index change nothing in the
\* wallet except that the key cache may gain entries: block_height, the
\* descriptor list, the address map and the Txo map are the same before and
\* after, whether the call succeeds or fails, and no entry of the key cache
\* is removed or changed.
C29_QueriesOnlyWarmCache ==
    [][ (Called("txo") \/ Called("script_pubkey_cache"))
        => /\ UNCHANGED <<block_height, descriptors, addresses, txos>>
           /\ (DOMAIN key_cache) \subseteq (DOMAIN key_cache')
           /\ \A p \in DOMAIN key_cache : key_cache'[p] = key_cache[p]
      ]_vars

\* C29 witness: the index was built in a wallet that holds a labelled
\* address, a tracked output and several keys.
C29_Witness ==
    /\ ret.op = "script_pubkey_cache" /\ ret.err = "none"
    /\ DOMAIN addresses # {} /\ DOMAIN txos # {}
    /\ Cardinality(DOMAIN key_cache) >= 2

\* C30: the key cache holds the key of every slot of every registered
\* descriptor, also of the slots add_descriptor skipped as covered; hence the
\* building of the index and the lookup of every tracked Txo send no request
\* to the authority and succeed even if the authority would refuse.
C30_CacheIsWarm ==
    /\ \A s \in Slots(descriptors) :
         derive(descriptors[s[1] + 1].desc, s[2]) \in DOMAIN key_cache
    /\ script_pubkey_cache(descriptors, key_cache, 1).err = "none"
    /\ script_pubkey_cache(descriptors, key_cache, 1).st.reqs = <<>>
    /\ \A o \in DOMAIN txos :
         /\ txo(descriptors, addresses, txos, key_cache, o, 1).err = "none"
         /\ txo(descriptors, addresses, txos, key_cache, o, 1).st.reqs = <<>>

\* C30 witness: in a wallet with a tracked output, a descriptor whose only
\* slot was covered by an earlier descriptor of the same template was
\* registered, after the authority had refused a request.
C30_Witness ==
    /\ ret.op = "add_descriptor" /\ ret.err = "none" /\ ret.val = 0
    /\ ret.low = 1 /\ ret.high = 2
    /\ Len(descriptors) >= 2
    /\ nfail = 1
    /\ DOMAIN txos # {}

\* ------------------------------------------------------------ integer claims
\* Byte k (1: the least significant) of a 32-bit pattern: the pattern shifted
\* right by 8 * (k - 1) bits, cut to eight bits.
ByteOf(v, k) ==
    CASE k = 1 -> v % 256
      [] k = 2 -> (v \div 256) % 256
      [] k = 3 -> (v \div 65536) % 256
      [] k = 4 -> (v \div 16777216) % 256

\* The four bytes from position p on are the bytes of v, least significant
\* first.
LittleEndianAt(bytes, p, v) == \A k \in 1..4 : bytes[p + k - 1] = ByteOf(v, k)

\* The sum of the four shifted bytes from position p on fits 32 bits: the
\* three low terms sum to less than 2^24 and the whole to less than 2^32.
SumFits(bytes, p) ==
    LET low24 == bytes[p] + 256 * bytes[p + 1] + 65536 * bytes[p + 2]
    IN  /\ \A k \in 0..3 : bytes[p + k] \in 0..255
        /\ low24 < 16777216
        /\ bytes[p + 3] + (low24 \div 16777216) < 256

\* C31: a 32-bit integer is encoded as exactly four bytes, least significant
\* first, and a 64-bit integer as its low half followed by its high half;
\* decoding the encoding yields the integer again, and the sums of shifted
\* bytes the decoder forms fit their width.
C31_IntegersLittleEndian ==
    /\ (codec.op # "input" /\ codec.kind = "value" /\ codec.T.t = "u32")
         => /\ codec.w.ok /\ Len(codec.w.bytes) = 4
            /\ LittleEndianAt(codec.w.bytes, 1, codec.x)
            /\ SumFits(codec.w.bytes, 1)
    /\ (codec.op # "input" /\ codec.kind = "value" /\ codec.T.t = "u64")
         => /\ codec.w.ok /\ Len(codec.w.bytes) = 8
            /\ LittleEndianAt(codec.w.bytes, 1, codec.x.lo)
            /\ LittleEndianAt(codec.w.bytes, 5, codec.x.hi)
            /\ SumFits(codec.w.bytes, 1) /\ SumFits(codec.w.bytes, 5)
    /\ (DecodedWhole("u32") \/ DecodedWhole("u64"))
         => /\ codec.res.r.ok
            /\ codec.res.r.pos = Len(codec.src)
            /\ codec.res.val = codec.x

\* C31 witness: the 64-bit integer with low half 0x12345678 and high half
\* 2^31 came back from the decoder of its eight bytes.
C31_Witness ==
    /\ DecodedWhole("u64")
    /\ codec.x = U64(305419896, (-2147483647) - 1)
    /\ codec.src = <<120, 86, 52, 18, 0, 0, 0, 128>>
    /\ codec.res.r.ok /\ codec.res.val = codec.x

\* --------------------------------------------------------- scan frame claims
\* C32: scan_block leaves block_height, the descriptor list, the address map
\* and the key cache (and the script index handed to it) unchanged and sends
\* no request to the hardware authority; of the wallet it changes only the
\* Txo map.
C32_ScanFrame ==
    [][ Called("scan_block")
        => /\ block_height' = block_height
           /\ descriptors' = descriptors
           /\ addresses' = addresses
           /\ key_cache' = key_cache
           /\ spks' = spks
           /\ requests' = requests /\ refused' = refused
           /\ ret'.reqs = <<>> /\ ret'.err = "none"
      ]_vars

\* C32 witness: a scan recorded a received output in a wallet that has a
\* descriptor, a labelled address and cached keys.
C32_Witness ==
    /\ ret.op = "scan_block" /\ ret.received # {}
    /\ ret.received \subseteq DOMAIN txos
    /\ descriptors # <<>> /\ DOMAIN addresses # {} /\ DOMAIN key_cache # {}

\* C33: once a Txo has a spending txid and a spent height, it has them after
\* every later scan_block call, also a repeated scan of the block that
\* created it: the spent fields are never reset to empty.
C33_SpentStaysSpent ==
    [][ Called("scan_block")
        => \A o \in DOMAIN txos :
             (txos[o].spending_txid # None /\ txos[o].spent_height # None)
               => /\ o \in DOMAIN txos'
                  /\ txos'[o].spending_txid # None
                  /\ txos'[o].spent_height # None
      ]_vars

\* ------------------------------------------------------- saved wallet claims
\* Every Address and every Txo of a wallet value names a descriptor index
\* smaller than the number of its descriptors.
IndicesInRange(x) ==
    /\ \A i \in 1..Len(x.addresses) :
         x.addresses[i][2].descriptor_idx \in 0..(Len(x.descriptors) - 1)
    /\ \A i \in 1..Len(x.txos) :
         x.txos[i][2].descriptor_idx \in 0..(Len(x.descriptors) - 1)

\* C34: every wallet reachable from the empty wallet through add_descriptor,
\* add_address and scan_block can be saved: Wallet::write on a sink that
\* never fails succeeds, also for a descriptor range of more than 10,000
\* indices, each of which added a key-cache entry.
C34_ReachableWalletIsSaved ==
    (/\ codec.op = "written" /\ codec.w.failat = 0
     /\ IndicesInRange(codec.x)
     /\ \A i \in 1..Len(codec.x.addresses) :
          Len(codec.x.addresses[i][2].notes) <= MAX_STRING_LEN)
      => codec.w.ok

\* ------------------------------------------------------ loaded wallet claims
\* A decoded wallet in the terms of the lookup: the templates of its
\* descriptors and its Txo map as a function of the outpoint.
LoadedDescriptors(x) ==
    [i \in 1..Len(x.descriptors) |->
        [x.descriptors[i] EXCEPT
            !.desc = IF @.kind = "pkh" THEN "pkh(A/*)" ELSE "wpkh(A/*)"]]
LoadedTxos(x) ==
    [o \in {x.txos[i][1] : i \in 1..Len(x.txos)} |->
        x.txos[CHOOSE i \in 1..Len(x.txos) : x.txos[i][1] = o][2]]

\* C35: whenever a byte string decodes into a Wallet, every Address and every
\* Txo of that wallet names a descriptor index smaller than the number of
\* decoded descriptors, and the lookup of every tracked outpoint of the
\* loaded wallet returns without aborting on the descriptor index.
C35_LoadedIndicesInRange ==
    (codec.op = "decoded" /\ codec.T.t = "Wallet" /\ codec.res.r.ok)
      => /\ IndicesInRange(codec.res.val)
         /\ \A o \in DOMAIN LoadedTxos(codec.res.val) :
              txo(LoadedDescriptors(codec.res.val), EmptyMap, LoadedTxos(codec.res.val),
                  EmptyMap, o, 0).err # "Panic"

\* ------------------------------------------ audit-log wallet (src/wallet.rs)
\* The sizes of the user and note fields of an entry, and the change below
\* which no change output is made.
MAX_USER_ID_BYTES == 32
MAX_NOTE_BYTES == 80
CHANGE_DUST == 1000

\* The number of entries the wallet is created with, and the bound of the
\* number of calls made on it and of the dongle calls of one call.
NEntries == 2
MaxLegacyCalls == 4
MaxDongleCalls == 8

\* The dongle during one call: the number of requests sent so far and the
\* request that fails (0: none).  A request after a failed one is not sent.
Dongle(failat) == [calls |-> 0, failat |-> failat, ok |-> TRUE]
request(d) ==
    IF ~d.ok THEN d
    ELSE [d EXCEPT !.calls = @ + 1, !.ok = (d.calls + 1 # d.failat)]

\* A zeroed trusted input field.
ZeroInput == <<0, 0, 0>>

\* Dongle::get_trusted_input(tx, vout): the dongle's own encryption of the
\* outpoint and its amount, which is never all zeros.
get_trusted_input(tx, vout) == <<tx.txid, vout, tx.output[vout + 1].value>>

\* The script of the address of entry `index`.
LegacyScript(index) == script_pubkey("pkh", PubKey(<<"44h/0h/0h/2h", index>>))

\* The decrypted content of a stored entry: the date field (0: zeroed),
\* whether the signature verifies, the trusted input (0: zeroed), the
\* outpoint and amount of the receive, and the spent flag.
ZeroEntry ==
    [date |-> 0, sig |-> FALSE, trusted_input |-> ZeroInput, txid |-> 0, vout |-> 0,
     amount |-> 0, spent |-> FALSE]

\* Entry::decrypt_and_verify: two dongle requests (the AES key, the address
\* key); a zeroed date is an Unused entry whatever else is stored, otherwise
\* the state follows from the signature and the trusted input.
decrypt_and_verify(d, stored, index) ==
    LET d2 == request(request(d))
    IN  [d |-> d2,
         entry |->
            IF stored.date = 0
            THEN [state |-> "Unused", index |-> index, date |-> 0, trusted_input |-> ZeroInput,
                  txid |-> 0, vout |-> 0, amount |-> 0, spent |-> FALSE]
            ELSE [state |-> IF ~stored.sig THEN "Invalid"
                            ELSE IF stored.trusted_input = ZeroInput THEN "Valid" ELSE "Received",
                  index |-> index, date |-> stored.date,
                  trusted_input |-> stored.trusted_input, txid |-> stored.txid,
                  vout |-> stored.vout, amount |-> stored.amount, spent |-> stored.spent]]

\* Entry::sign_and_encrypt: the fields are laid out, signed by the dongle
\* (one request) and encrypted (two requests: the AES key, the IV).
sign_and_encrypt(d, entry) ==
    [d |-> request(request(request(d))),
     stored |-> [date |-> entry.date, sig |-> TRUE, trusted_input |-> entry.trusted_input,
                 txid |-> entry.txid, vout |-> entry.vout, amount |-> entry.amount,
                 spent |-> entry.spent]]

\* EncryptedWallet::update(index, user, blockhash, Update::Unused(note)):
\* the entry is overwritten by a signed entry without a receive.
update(entries, d, index, user, note) ==
    IF user > MAX_USER_ID_BYTES THEN [entries |-> entries, d |-> d, err |-> "UserIdTooLong"]
    ELSE LET d1 == request(d)
             s  == sign_and_encrypt(d1, [state |-> "Valid", index |-> index, date |-> 1,
                                         trusted_input |-> ZeroInput, txid |-> 0, vout |-> 0,
                                         amount |-> 0, spent |-> FALSE])
         IN  IF ~d1.ok THEN [entries |-> entries, d |-> d1, err |-> "Dongle"]
             ELSE IF note > MAX_NOTE_BYTES
             THEN [entries |-> entries, d |-> d1, err |-> "NoteTooLong"]
             ELSE IF ~s.d.ok THEN [entries |-> entries, d |-> s.d, err |-> "Dongle"]
             ELSE [entries |-> [entries EXCEPT ![index + 1] = s.stored], d |-> s.d,
                   err |-> "none"]

\* EncryptedWallet::mark_spent(index).
mark_spent(entries, d, index) ==
    IF index + 1 > Len(entries) THEN [entries |-> entries, d |-> d, err |-> "EntryOutOfRange"]
    ELSE LET l == decrypt_and_verify(d, entries[index + 1], index)
             s == sign_and_encrypt(l.d, [l.entry EXCEPT !.spent = TRUE])
         IN  IF ~s.d.ok THEN [entries |-> entries, d |-> s.d, err |-> "Dongle"]
             ELSE [entries |-> [entries EXCEPT ![index + 1] = s.stored], d |-> s.d,
                   err |-> "none"]

\* ---- EncryptedWallet::receive
\* An output loop that records the new outpoint over a recorded receive.
RECURSIVE receive_outputs_overwrite(_, _, _, _)
receive_outputs_overwrite(st, tx, i, vout) ==
    IF st.err # "none" \/ vout >= Len(tx.output) THEN st
    ELSE IF tx.output[vout + 1].script_pubkey # LegacyScript(i)
    THEN receive_outputs_overwrite(st, tx, i, vout + 1)
    ELSE IF st.entry.state = "Invalid" THEN [st EXCEPT !.err = "BadSignature"]
    ELSE LET d1    == request(st.d)
             entry == [st.entry EXCEPT !.state = "Received",
                                       !.trusted_input = get_trusted_input(tx, vout),
                                       !.txid = tx.txid, !.vout = vout,
                                       !.amount = tx.output[vout + 1].value]
             s     == sign_and_encrypt(d1, entry)
         IN  IF ~s.d.ok THEN [st EXCEPT !.d = s.d, !.err = "Dongle"]
             ELSE receive_outputs_overwrite(
                      [st EXCEPT !.entries[i + 1] = s.stored, !.d = s.d, !.entry = entry],
                      tx, i, vout + 1)

\* The loop over the outputs of tx for entry i (counted from 0), from output
\* vout on; st holds the stored entries, the dongle, the error returned (if
\* any) and the decrypted copy `entry` the loop works on.
RECURSIVE receive_outputs(_, _, _, _)
receive_outputs(st, tx, i, vout) ==
    IF st.err # "none" \/ vout >= Len(tx.output) THEN st
    ELSE IF tx.output[vout + 1].script_pubkey # LegacyScript(i)
    THEN receive_outputs(st, tx, i, vout + 1)
    ELSE CASE st.entry.state = "Invalid" -> [st EXCEPT !.err = "BadSignature"]
           [] st.entry.state = "Received" ->
                IF st.entry.txid = tx.txid /\ st.entry.vout = vout
                THEN receive_outputs(st, tx, i, vout + 1)
                ELSE [st EXCEPT !.err = "DoubleReceive"]
           [] st.entry.state = "Valid" ->
                LET d1    == request(st.d)
                    entry == [st.entry EXCEPT !.state = "Received",
                                              !.trusted_input = get_trusted_input(tx, vout),
                                              !.txid = tx.txid, !.vout = vout,
                                              !.amount = tx.output[vout + 1].value]
                    s     == sign_and_encrypt(d1, entry)
                IN  IF ~d1.ok THEN [st EXCEPT !.d = d1, !.err = "Dongle"]
                    ELSE IF ~s.d.ok THEN [st EXCEPT !.d = s.d, !.err = "Dongle"]
                    ELSE receive_outputs(
                             [st EXCEPT !.entries[i + 1] = s.stored, !.d = s.d,
                                        !.entry = entry],
                             tx, i, vout + 1)

\* The loop over the entries, from entry i on.
RECURSIVE receive_entries(_, _, _)
receive_entries(st, tx, i) ==
    IF st.err # "none" \/ i >= Len(st.entries) THEN st
    ELSE LET l == decrypt_and_verify(st.d, st.entries[i + 1], i)
         IN  IF ~l.d.ok THEN [st EXCEPT !.d = l.d, !.err = "Dongle"]
             ELSE IF l.entry.state = "Unused"
             THEN receive_entries([st EXCEPT !.d = l.d], tx, i + 1)
             ELSE receive_entries(
                      receive_outputs([st EXCEPT !.d = l.d, !.entry = l.entry], tx, i, 0),
                      tx, i + 1)

receive(entries, d, tx) ==
    receive_entries([entries |-> entries, d |-> d, err |-> "none", entry |-> ZeroEntry],
                    tx, 0)

\* ---- EncryptedWallet::get_inputs_and_change
\* The spend under construction: the inputs chosen, the outputs, and the
\* change (the entry whose path is the change path, None for the zero path).
Spend(outputs) ==
    [input |-> <<>>, output |-> outputs, change_path |-> None, change_amount |-> 0,
     change_vout |-> 0]

\* The sum of the values of the outputs.
RECURSIVE total_value(_)
total_value(outputs) ==
    IF outputs = <<>> THEN 0 ELSE outputs[1].value + total_value(Tail(outputs))

\* What the spend needs when the transaction is estimated at size_bytes.
total_needed(total_amount, size_bytes, fee_rate) ==
    total_amount + ((size_bytes * fee_rate) \div 1000)

\* The loop over the entries, from entry i on, until change and sufficient
\* funds are found (done).
RECURSIVE select_entries(_, _, _, _, _)
select_entries(st, entries, i, total_amount, fee_rate) ==
    IF st.err # "none" \/ st.done \/ i >= Len(entries) THEN st
    ELSE LET l  == decrypt_and_verify(st.d, entries[i + 1], i)
             s1 == [st EXCEPT !.d = l.d]
             s2 == CASE l.entry.state = "Unused" /\ ~st.found_change ->
                          [s1 EXCEPT !.spend.output = Append(@, TxOut(LegacyScript(i), 0)),
                                     !.spend.change_path = Some(i),
                                     !.found_change = TRUE]
                     [] /\ l.entry.state = "Received" /\ ~l.entry.spent
                        /\ st.found_amount
                             < total_needed(total_amount, st.size_bytes, fee_rate) ->
                          [s1 EXCEPT !.spend.input = Append(@, l.entry),
                                     !.size_bytes = @ + 150,
                                     !.found_amount = @ + l.entry.amount]
                     [] OTHER -> s1
         IN  IF ~l.d.ok THEN [st EXCEPT !.d = l.d, !.err = "Dongle"]
             ELSE select_entries(
                      [s2 EXCEPT !.done =
                          /\ s2.found_change
                          /\ s2.found_amount
                               >= total_needed(total_amount, s2.size_bytes, fee_rate)],
                      entries, i + 1, total_amount, fee_rate)

\* The final step for a change of at least CHANGE_DUST: the value of the last
\* output is set, and only then is it asked whether a change output was added.
settle_change(st, computed_change) ==
    IF st.spend.output = <<>> THEN [spend |-> st.spend, d |-> st.d, err |-> "Panic"]
    ELSE [spend |-> [st.spend EXCEPT !.change_amount = computed_change,
                                     !.output[Len(st.spend.output)].value = computed_change,
                                     !.change_vout = Len(st.spend.output) - 1],
          d |-> st.d,
          err |-> IF st.found_change THEN "none" ELSE "WalletFull"]

get_inputs_and_change(entries, d, fee_rate, spend) ==
    LET total_amount == total_value(spend.output)
        st == select_entries([spend |-> spend, d |-> d, err |-> "none", found_amount |-> 0,
                              found_change |-> FALSE,
                              size_bytes |-> 13 + ((Len(spend.output) + 1) * 34),
                              done |-> FALSE],
                             entries, 0, total_amount, fee_rate)
        needed == total_needed(total_amount, st.size_bytes, fee_rate)
    IN  IF st.err # "none" THEN [spend |-> st.spend, d |-> st.d, err |-> st.err]
        ELSE IF st.found_amount < needed
        THEN [spend |-> st.spend, d |-> st.d, err |-> "InsufficientFunds"]
        ELSE IF st.found_amount - needed < CHANGE_DUST
        THEN [spend |-> [st.spend EXCEPT
                            !.change_amount = 0, !.change_path = None,
                            !.output = IF st.found_change THEN SubSeq(@, 1, Len(@) - 1) ELSE @],
              d |-> st.d, err |-> "none"]
        ELSE settle_change(st, st.found_amount - needed)

\* ---- the audit-log wallet as a state machine
\* The last call on the audit-log wallet: its arguments and what it returned.
NoLegacyCall ==
    [op |-> "new", err |-> "none", index |-> 0, tx |-> [txid |-> 0, output |-> <<>>],
     failat |-> 0, fee_rate |-> 0, spend_in |-> Spend(<<>>), spend |-> Spend(<<>>)]

\* Transactions offered to receive: one with two outputs that pay entry 0,
\* one that pays entries 0 and 1, one that pays a stranger and entry 1.
LegacyTxA == [txid |-> 1, output |-> <<TxOut(LegacyScript(0), 5000), TxOut(LegacyScript(0), 6000)>>]
LegacyTxB == [txid |-> 2, output |-> <<TxOut(LegacyScript(0), 300), TxOut(LegacyScript(1), 700)>>]
LegacyTxC == [txid |-> 3, output |-> <<TxOut(ForeignScript, 900), TxOut(LegacyScript(1), 8000)>>]
LegacyTxs == {LegacyTxA, LegacyTxB, LegacyTxC}

\* The outputs a caller places in a spend, and the fee rates.
CallerOutputs ==
    {<<>>, <<TxOut(ForeignScript, 2000)>>,
     <<TxOut(ForeignScript, 2000), TxOut(LegacyScript(7), 1500)>>}
FeeRates == {0, 1000}

\* EncryptedWallet::new(dongle, network, account, NEntries): zeroed entries.
InitLegacy ==
    /\ InitWallet /\ codec = NoCodec
    /\ legacy = [op |-> "wallet", entries |-> [i \in 1..NEntries |-> ZeroEntry],
                 ret |-> NoLegacyCall]

\* What a call on the audit-log wallet leaves alone, and the bound of calls.
LegacyCall ==
    /\ legacy.op = "wallet" /\ legacy.ret.err # "Panic"
    /\ ncalls < MaxLegacyCalls
    /\ ncalls' = ncalls + 1
    /\ UNCHANGED <<block_height, descriptors, addresses, txos, key_cache, spks,
                   overflow_checks, requests, refused, nfail, used, ret, codec>>

Update ==
    /\ LegacyCall
    /\ \E index \in 0..(NEntries - 1), failat \in {0, 1, 4},
          size \in {<<3, 4>>, <<MAX_USER_ID_BYTES + 1, 4>>, <<3, MAX_NOTE_BYTES + 1>>} :
         LET r == update(legacy.entries, Dongle(failat), index, size[1], size[2])
         IN  legacy' = [legacy EXCEPT
                           !.entries = r.entries,
                           !.ret = [NoLegacyCall EXCEPT !.op = "update", !.err = r.err,
                                                        !.index = index, !.failat = failat]]

MarkSpent ==
    /\ LegacyCall
    /\ \E index \in 0..NEntries, failat \in {0, 2} :
         LET r == mark_spent(legacy.entries, Dongle(failat), index)
         IN  legacy' = [legacy EXCEPT
                           !.entries = r.entries,
                           !.ret = [NoLegacyCall EXCEPT !.op = "mark_spent", !.err = r.err,
                                                        !.index = index, !.failat = failat]]

\* EncryptedWallet::load of a file in which the signed part of a used entry
\* was altered: its signature no longer verifies.
Load ==
    /\ LegacyCall
    /\ \E index \in 0..(NEntries - 1) :
         /\ legacy.entries[index + 1].date # 0
         /\ legacy' = [legacy EXCEPT
                          !.entries[index + 1].sig = FALSE,
                          !.ret = [NoLegacyCall EXCEPT !.op = "load", !.index = index]]

Receive ==
    /\ LegacyCall
    /\ \E tx \in LegacyTxs, failat \in 0..MaxDongleCalls :
         LET r == receive(legacy.entries, Dongle(failat), tx)
         IN  legacy' = [legacy EXCEPT
                           !.entries = r.entries,
                           !.ret = [NoLegacyCall EXCEPT !.op = "receive", !.err = r.err,
                                                        !.tx = tx, !.failat = failat]]

GetInputsAndChange ==
    /\ LegacyCall
    /\ \E outputs \in CallerOutputs, fee_rate \in FeeRates, failat \in {0, 3} :
         LET r == get_inputs_and_change(legacy.entries, Dongle(failat), fee_rate,
                                        Spend(outputs))
         IN  legacy' = [legacy EXCEPT
                           !.ret = [NoLegacyCall EXCEPT !.op = "get_inputs_and_change",
                                                        !.err = r.err, !.failat = failat,
                                                        !.fee_rate = fee_rate,
                                                        !.spend_in = Spend(outputs),
                                                        !.spend = r.spend]]

NextLegacy == Update \/ MarkSpent \/ Load \/ Receive \/ GetInputsAndChange

SpecLegacy == InitLegacy /\ [][NextLegacy]_vars

\* -------------------------------------------------- audit-log wallet claims
\* A step in which the named operation was called on the audit-log wallet.
LegacyCalled(op) == ncalls' = ncalls + 1 /\ legacy'.ret.op = op

\* The state a lookup finds a stored entry in.
StateOf(stored) == decrypt_and_verify(Dongle(0), stored, 0).entry.state

\* The outputs of tx (counted from 0) that pay the address of entry i.
Matches(tx, i) ==
    {vout \in 0..(Len(tx.output) - 1) : tx.output[vout + 1].script_pubkey = LegacyScript(i)}

\* The error entry i makes receive(tx) fail with, "none" if it does not.
Offence(stored, tx, i) ==
    CASE StateOf(stored) = "Invalid" /\ Matches(tx, i) # {} -> "BadSignature"
      [] /\ StateOf(stored) = "Received"
         /\ \E vout \in Matches(tx, i) : ~(stored.txid = tx.txid /\ stored.vout = vout)
           -> "DoubleReceive"
      [] StateOf(stored) = "Valid" /\ Cardinality(Matches(tx, i)) >= 2 -> "DoubleReceive"
      [] OTHER -> "none"

\* C36: receive(tx) never replaces a recorded receive.  The only change it
\* makes to a stored entry is to turn a Valid entry into a Received one that
\* holds txid, vout and amount of an output of tx paying the entry; Unused,
\* Invalid and Received entries are stored as before.  When the dongle
\* answers, the call fails with DoubleReceive at the first entry that is
\* Received and paid at another outpoint, with BadSignature at the first
\* Invalid entry that is paid, and an Unused entry is passed over.
C36_ReceiveNeverReplaces ==
    [][ LegacyCalled("receive")
        => LET tx == legacy'.ret.tx
               offenders == {i \in 0..(NEntries - 1) :
                               Offence(legacy.entries[i + 1], tx, i) # "none"}
           IN  /\ \A i \in 0..(NEntries - 1) :
                    LET before == legacy.entries[i + 1]
                        after  == legacy'.entries[i + 1]
                    IN  /\ StateOf(before) # "Valid" => after = before
                        /\ after # before
                             => /\ StateOf(after) = "Received"
                                /\ after.txid = tx.txid
                                /\ after.vout \in Matches(tx, i)
                                /\ after.amount = tx.output[after.vout + 1].value
                                /\ after.date = before.date /\ after.spent = before.spent
               /\ legacy'.ret.failat = 0
                    => legacy'.ret.err =
                         IF offenders = {} THEN "none"
                         ELSE Offence(legacy.entries[
                                          (CHOOSE i \in offenders :
                                              \A j \in offenders : i <= j) + 1],
                                      tx,
                                      CHOOSE i \in offenders : \A j \in offenders : i <= j)
      ]_vars

\* C36 witness: entry 1 holds the receive of 8000 at outpoint 3:1, and a
\* transaction paying it at outpoint 2:1 was refused with DoubleReceive.
C36_Witness ==
    /\ legacy.op = "wallet" /\ legacy.ret.op = "receive"
    /\ legacy.ret.tx = LegacyTxB /\ legacy.ret.err = "DoubleReceive"
    /\ StateOf(legacy.entries[2]) = "Received"
    /\ legacy.entries[2].txid = 3 /\ legacy.entries[2].vout = 1
    /\ legacy.entries[2].amount = 8000

\* C37: when receive(tx) returns an error, every stored entry is as it was
\* before the call.
C37_FailedReceiveChangesNothing ==
    [][ (LegacyCalled("receive") /\ legacy'.ret.err # "none")
        => legacy'.entries = legacy.entries
      ]_vars

\* C38: get_inputs_and_change leaves the outputs the caller placed in the
\* spend as they are, whatever it returns: the outputs afterwards are the
\* caller's outputs, followed by at most one change output.
C38_CallerOutputsKept ==
    [][ LegacyCalled("get_inputs_and_change")
        => LET given == legacy'.ret.spend_in.output
               out   == legacy'.ret.spend.output
           IN  /\ Len(out) \in {Len(given), Len(given) + 1}
               /\ SubSeq(out, 1, Len(given)) = given
               /\ legacy'.entries = legacy.entries
      ]_vars

\* ------------------------- import of an audit-log wallet (importicboc/mod.rs)
\* The magic bytes of an audit-log wallet file and the sizes of an entry.
MAGIC == <<49, 96, 249, 13, 170, 229, 0, 1>>
ENCRYPTED_ENTRY_SIZE == 352
DECRYPTED_ENTRY_SIZE == 336

\* The bounds: the entries of an imported file and the imports of a behaviour.
MaxImportEntries == 2
MaxImportCalls == 1

\* The descriptor the import registers.
ImportTemplate == "pkh(xpub/44h/0h/0h/2h/*h)"

\* A file: its size as the number of whole entries (icboc_size /
\* ENCRYPTED_ENTRY_SIZE, a 64-bit number given by its halves) and the rest
\* (icboc_size % ENCRYPTED_ENTRY_SIZE), the magic and account bytes, and what
\* each entry decrypts to under the dongle's key.
File(count, rem, magic, account, entries) ==
    [count |-> count, rem |-> rem, magic |-> magic, account |-> account,
     entries |-> entries]

\* The scan for the end of the notes from offset endidx on (offsets count
\* from 0): the loop stops at the first offset that is either the length of
\* the entry, where indexing the slice panics, or holds a zero byte.  The
\* result is the offset it stops at, the largest offset it indexed the entry
\* with, and whether that index was beyond the entry.
notes_end(decrypted_entry, endidx) ==
    IF endidx <= Len(decrypted_entry)
    THEN LET stops == {k \in endidx..Len(decrypted_entry) :
                          \/ k >= Len(decrypted_entry)
                          \/ decrypted_entry[k + 1] = 0}
             stop  == CHOOSE k \in stops : \A j \in stops : k <= j
         IN  [endidx |-> stop, read |-> stop, panic |-> stop >= Len(decrypted_entry)]
    ELSE [endidx |-> endidx, read |-> endidx - 1, panic |-> FALSE]

\* An entry loop that passes over an entry it cannot decode.
RECURSIVE import_entries_skip(_, _, _, _, _, _, _)
import_entries_skip(st, file, i, n_entries, desc_idx, failure, checks) ==
    IF st.err # "none" \/ i >= n_entries THEN st
    ELSE IF failure = <<"entry", i>> THEN [st EXCEPT !.err = "Dongle"]
    ELSE LET decrypted_entry == file.entries[i + 1]
             scan == notes_end(decrypted_entry, 252)
             a == add_address(st.descriptors, st.addresses, st.key_cache, desc_idx,
                              Some(i), SubSeq(decrypted_entry, 165, 188),
                              SubSeq(decrypted_entry, 253, scan.endidx), 0, checks)
         IN  IF \/ decrypted_entry = Repeat(0, DECRYPTED_ENTRY_SIZE)
                \/ ~from_utf8_ok(SubSeq(decrypted_entry, 165, 188))
                \/ scan.panic
                \/ ~from_utf8_ok(SubSeq(decrypted_entry, 253, scan.endidx))
             THEN import_entries_skip(st, file, i + 1, n_entries, desc_idx, failure, checks)
             ELSE import_entries_skip(
                      [st EXCEPT !.descriptors = a.descriptors, !.addresses = a.addresses,
                                 !.key_cache = a.st.kc, !.err = a.err],
                      file, i + 1, n_entries, desc_idx, failure, checks)

\* The loop over the entries of the file, from entry i on: the key of the
\* entry is requested from the dongle, the entry is decrypted, and an entry
\* that is not all zeros is decoded and added as an address.
RECURSIVE import_entries(_, _, _, _, _, _, _)
import_entries(st, file, i, n_entries, desc_idx, failure, checks) ==
    IF st.err # "none" \/ i >= n_entries THEN st
    ELSE IF failure = <<"entry", i>> THEN [st EXCEPT !.err = "Dongle"]
    ELSE LET decrypted_entry == file.entries[i + 1]
             scan == notes_end(decrypted_entry, 252)
             read == [st EXCEPT !.maxread = IF scan.read > @ THEN scan.read ELSE @]
             a == add_address(st.descriptors, st.addresses, st.key_cache, desc_idx,
                              Some(i), SubSeq(decrypted_entry, 165, 188),
                              SubSeq(decrypted_entry, 253, scan.endidx), 0, checks)
         IN  IF decrypted_entry = Repeat(0, DECRYPTED_ENTRY_SIZE)
             THEN import_entries(st, file, i + 1, n_entries, desc_idx, failure, checks)
             ELSE IF ~from_utf8_ok(SubSeq(decrypted_entry, 165, 188))
             THEN [st EXCEPT !.err = "Utf8"]
             ELSE IF scan.panic THEN [read EXCEPT !.err = "Panic"]
             ELSE IF ~from_utf8_ok(SubSeq(decrypted_entry, 253, scan.endidx))
             THEN [read EXCEPT !.err = "Utf8"]
             ELSE import_entries(
                      [read EXCEPT !.descriptors = a.descriptors, !.addresses = a.addresses,
                                   !.key_cache = a.st.kc, !.err = a.err],
                      file, i + 1, n_entries, desc_idx, failure, checks)

\* ImportIcboc::execute on the wallet that open_wallet returned.  `failure`
\* names the step outside this file that fails: <<"key", 0>> the wallet key,
\* <<"open", 0>> open_wallet, <<"metadata", 0>> the file system, <<"xpub", 0>>
\* the master key, <<"derive", k>> request k of add_descriptor, <<"entry", i>>
\* the key of entry i, <<"save", 0>> save_wallet; <<"none", 0>> none.
execute(ds, addrs, kc, file, failure, checks) ==
    LET opened == [descriptors |-> ds, addresses |-> addrs, key_cache |-> kc,
                   err |-> "none", maxread |-> 0, save_called |-> FALSE, saved |-> FALSE]
    IN  IF failure = <<"key", 0>> THEN [opened EXCEPT !.err = "Dongle"]
        ELSE IF failure = <<"open", 0>> THEN [opened EXCEPT !.err = "Open"]
        ELSE IF failure = <<"metadata", 0>> THEN [opened EXCEPT !.err = "Io"]
        ELSE IF file.rem # 12 THEN [opened EXCEPT !.err = "BadSize"]
        ELSE IF file.magic # MAGIC THEN [opened EXCEPT !.err = "BadMagic"]
        ELSE IF file.account # Repeat(0, 4) THEN [opened EXCEPT !.err = "BadAccount"]
        ELSE IF failure = <<"xpub", 0>> THEN [opened EXCEPT !.err = "Dongle"]
        ELSE IF file.count.hi # 0 \/ file.count.lo < 0
        THEN [opened EXCEPT !.err = "TooManyEntries"]
        ELSE
        LET d == add_descriptor(ds, kc, ImportTemplate, 0, file.count.lo,
                                IF failure[1] = "derive" THEN failure[2] ELSE 0)
            e == import_entries([opened EXCEPT !.descriptors = d.descriptors,
                                               !.key_cache = d.st.kc],
                                file, 0, file.count.lo, Len(ds), failure, checks)
        IN  IF d.err # "none" THEN [opened EXCEPT !.err = d.err, !.key_cache = d.st.kc]
            ELSE IF e.err # "none" THEN e
            ELSE IF failure = <<"save", 0>>
            THEN [e EXCEPT !.save_called = TRUE, !.err = "Save"]
            ELSE [e EXCEPT !.save_called = TRUE, !.saved = TRUE]

\* ---- the import as a state machine
\* What an entry decrypts to: all zeros; a date and the note "n"; a date, a
\* note of 80 bytes and the spent flag; a date and no zero byte from offset
\* 252 on; a date that is not UTF-8; a note that is not UTF-8.
Entry(date, note, flags) ==
    [k \in 1..DECRYPTED_ENTRY_SIZE |->
        IF 165 <= k /\ k <= 188 THEN date
        ELSE IF 253 <= k /\ k <= 252 + Len(note) THEN note[k - 252]
        ELSE IF k = DECRYPTED_ENTRY_SIZE THEN flags ELSE 0]
EntryZero == Entry(0, <<>>, 0)
EntryNote == Entry(50, <<110>>, 0)
EntrySpent == Entry(50, Repeat(110, MAX_NOTE_BYTES), 1)
EntryNoZero == Entry(50, Repeat(110, DECRYPTED_ENTRY_SIZE - 252), 1)
EntryBadDate == Entry(255, <<110>>, 0)
EntryBadNote == Entry(50, <<255>>, 0)
ImportEntries == {EntryZero, EntryNote, EntrySpent, EntryNoZero, EntryBadDate, EntryBadNote}

\* Files: at most MaxImportEntries noted entries of which at most one is
\* zeroed, every single entry, a spent entry followed by every entry; files
\* of a wrong size, with wrong magic or account bytes, and two files of 2^31
\* entries or more.
ImportFiles ==
    {File(U64(Len(es), 0), 12, MAGIC, Repeat(0, 4), es) :
        es \in {[k \in 1..n |-> IF k = z THEN EntryZero ELSE EntryNote] :
                    n \in 0..MaxImportEntries, z \in 0..MaxImportEntries}
               \cup {<<EntrySpent, b>> : b \in ImportEntries}
               \cup {<<a>> : a \in ImportEntries}}
    \cup {File(U64(1, 0), ENCRYPTED_ENTRY_SIZE - 1, MAGIC, Repeat(0, 4), <<EntryNote>>),
          File(U64(1, 0), 12, Repeat(0, 8), Repeat(0, 4), <<EntryNote>>),
          File(U64(1, 0), 12, MAGIC, <<0, 0, 0, 1>>, <<EntryNote>>),
          File(U64((-2147483647) - 1, 0), 12, MAGIC, Repeat(0, 4), <<>>),
          File(U64(0, 1), 12, MAGIC, Repeat(0, 4), <<>>)}

\* The step outside the command that fails, if any: the first or the last
\* key request of add_descriptor, the key of the first or of the last entry.
ImportFailures ==
    {<<"none", 0>>, <<"key", 0>>, <<"open", 0>>, <<"metadata", 0>>, <<"xpub", 0>>,
     <<"save", 0>>}
    \cup {<<"derive", k>> : k \in {1, MaxImportEntries}}
    \cup {<<"entry", i>> : i \in {0, MaxImportEntries - 1}}

\* No import has run: the wallet file is the empty wallet.
InitImport ==
    /\ InitWallet /\ codec = NoCodec
    /\ legacy = [op |-> "import", file |-> File(U64(0, 0), 0, <<>>, <<>>, <<>>),
                 failure |-> <<"none", 0>>,
                 res |-> [descriptors |-> <<>>, addresses |-> EmptyMap,
                          key_cache |-> EmptyMap, err |-> "none", maxread |-> 0,
                          save_called |-> FALSE, saved |-> FALSE]]

\* One run of the command: the wallet file is replaced when save_wallet ran
\* and succeeded, and is as before otherwise.
ImportIcboc ==
    /\ legacy.op = "import"
    /\ ncalls < MaxImportCalls
    /\ \E file \in ImportFiles, failure \in ImportFailures :
         LET r == execute(descriptors, addresses, key_cache, file, failure, overflow_checks)
         IN  /\ legacy' = [legacy EXCEPT !.file = file, !.failure = failure, !.res = r]
             /\ descriptors' = IF r.saved THEN r.descriptors ELSE descriptors
             /\ addresses' = IF r.saved THEN r.addresses ELSE addresses
             /\ key_cache' = IF r.saved THEN r.key_cache ELSE key_cache
    /\ ncalls' = ncalls + 1
    /\ UNCHANGED <<block_height, txos, spks, overflow_checks, requests, refused, nfail,
                   used, ret, codec>>

NextImport == ImportIcboc

SpecImport == InitImport /\ [][NextImport]_vars

\* ---- the import claims
\* An import step: the command ran once more.
Imported == legacy.op = "import" /\ ncalls' = ncalls + 1

\* The entry decodes: it is all zeros, or its date is UTF-8, a zero byte
\* ends its notes within the entry and the notes are UTF-8.
Decodes(entry) ==
    \/ \A k \in 1..Len(entry) : entry[k] = 0
    \/ /\ from_utf8_ok(SubSeq(entry, 165, 188))
       /\ \E z \in 253..Len(entry) :
             /\ entry[z] = 0
             /\ \A k \in 253..(z - 1) : entry[k] # 0
             /\ from_utf8_ok(SubSeq(entry, 253, z - 1))

\* The file passes the size, magic, account and entry-count tests and every
\* one of its entries decodes.
WellFormed(file) ==
    /\ file.rem = 12 /\ file.magic = MAGIC /\ file.account = Repeat(0, 4)
    /\ file.count.hi = 0 /\ file.count.lo >= 0
    /\ \A k \in 1..Len(file.entries) : Decodes(file.entries[k])

\* C39: the import persists the wallet only after the descriptor and every
\* entry were imported without error.  When a step fails (the size, magic or
\* account test, the 2^31 guard, a dongle request, add_descriptor, the
\* decoding of an entry, add_address), save_wallet is not called and the
\* stored wallet is as it was; save_wallet is called only for a well-formed
\* file and with no failed request before it.
C39_SavedOnlyAfterSuccess ==
    [][Imported =>
          LET r == legacy'.res
          IN  /\ r.err \notin {"none", "Save"} =>
                    /\ ~r.save_called /\ ~r.saved
                    /\ descriptors' = descriptors
                    /\ addresses' = addresses
                    /\ key_cache' = key_cache
              /\ r.save_called =>
                    /\ WellFormed(legacy'.file)
                    /\ legacy'.failure[1] \in {"none", "save", "derive", "entry"}
                    /\ r.err \in {"none", "Save"}
              /\ r.saved => r.save_called]_vars

\* C39 witness: an import that registered the descriptor and added the first
\* entry's address in memory, failed at a later entry that does not decode,
\* and left the stored wallet empty.
C39_Witness ==
    /\ legacy.op = "import" /\ ncalls = 1
    /\ legacy.res.err = "Utf8"
    /\ Len(legacy.res.descriptors) = 1
    /\ legacy.res.addresses # EmptyMap
    /\ ~legacy.res.save_called
    /\ descriptors = <<>> /\ addresses = EmptyMap /\ key_cache = EmptyMap

\* C40: the scan for the end of the notes starts at offset 252 and never
\* indexes the decrypted entry at an offset outside its 336 bytes, whatever
\* the entry holds, an entry with no zero byte in offsets 252..335 included.
C40_NotesScanInBounds ==
    legacy.op = "import" =>
        /\ legacy.res.maxread < DECRYPTED_ENTRY_SIZE
        /\ legacy.res.err # "Panic"

====
